---- MODULE Spec2Model ----
(***************************************************************************)
(* A model of braindumpsync: the ledger (src/src/state.ts), the ingester   *)
(* (src/src/ingest.ts), the extraction client (TaskExtractor, in           *)
(* src/src/log.ts), the record-store client (src/src/notion.ts) and the    *)
(* Command that wires them (src/src/runner-hourly.ts, and the same code in *)
(* src/src/runner-manual.ts).                                              *)
(*                                                                         *)
(* Specifications:                                                         *)
(*   Spec         one process running Command again and again, with file   *)
(*                edits, the passing of time and crashes in between        *)
(*   SpecStore    the ledger's markTaskProcessed and cleanup(maxEntries)   *)
(*   SpecUpsert   NotionClient.createTask, one call after the other, down  *)
(*                to the single HTTP request                               *)
(*   SpecExtract  TaskExtractor.extractTasks for one chunk, down to the    *)
(*                single HTTP request                                      *)
(***************************************************************************)
EXTENDS Integers, Sequences, FiniteSets, TLC

VARIABLES
  \* ---- the world of Spec
  now,            \* the clock
  mtime,          \* file system: path -> modification time
  content,        \* file system: path -> what the file holds (see InitContents)
  disk,           \* the persisted ledger, state.json
  state,          \* StateManager.state, the ledger in memory
  pages,          \* record store: the Task IDs that have a page
  \* ---- one execution of Command
  pc,             \* where Command stands
  fileContents,   \* ingestFiles: what readFiles returned
  chunks,         \* ingestFiles: allChunks
  results,        \* extractTasksFromChunks: results (with the batch in flight)
  allTasks,       \* Command: allTasks
  syncResults,    \* syncTasks: results (with the batch in flight)
  loopI,          \* the loop variable of the loop Command is in
  trace,          \* what this execution of Command did so far (observation only)
  \* ---- SpecStore, SpecUpsert, SpecExtract
  cl,             \* SpecStore: the last ledger operation
  up,             \* SpecUpsert: the createTask call and the record store
  ex              \* SpecExtract: the extractTasks call

vars == <<now, mtime, content, disk, state, pages, pc, fileContents, chunks,
          results, allTasks, syncResults, loopI, trace, cl, up, ex>>

worldVars == <<now, mtime, content, disk, state, pages>>
runVars   == <<pc, fileContents, chunks, results, allTasks, syncResults, loopI, trace>>

----------------------------------------------------------------------------
(* Bounds of the model *)

MaxClock == 3            \* the clock stops here
MaxTasksPerChunk == 2    \* tasks a chunk of a file holds at most
MaxEntriesCap == 2       \* stands for cleanup()'s default maxEntries (10000,
                         \* state.ts:175), scaled down so that a run prunes
RetentionWindow == 1     \* stands for cleanup()'s 30 days (state.ts:190), in
                         \* clock units

(* Program constants *)

MaxConcurrency == 3      \* maxConcurrency of both batch loops
Null == 0                \* lastRun: null (the clock starts at 1)

----------------------------------------------------------------------------
(* Helpers *)

Range(s) == { s[i] : i \in DOMAIN s }

Min(a, b) == IF a < b THEN a ELSE b

\* Array.prototype.slice(start) with start >= 0
SliceFrom(s, start) == SubSeq(s, start + 1, Len(s))

\* Array.prototype.slice(-n): the last n elements; slice(-0) is slice(0)
SliceLast(s, n) ==
  IF n = 0 THEN s
  ELSE SliceFrom(s, IF Len(s) - n < 0 THEN 0 ELSE Len(s) - n)

----------------------------------------------------------------------------
\* The last element of a sequence that has one
Last(s) == s[Len(s)]

(* Titles are strings, modelled as sequences of characters *)

toLowerCase(t) ==
  [i \in DOMAIN t |->
     CASE t[i] = "A" -> "a"
       [] t[i] = "B" -> "b"
       [] t[i] = "C" -> "c"
       [] OTHER -> t[i]]

RECURSIVE trimStart(_)
trimStart(t) == IF t # <<>> /\ Head(t) = " " THEN trimStart(Tail(t)) ELSE t

RECURSIVE trimEnd(_)
trimEnd(t) ==
  IF t # <<>> /\ t[Len(t)] = " " THEN trimEnd(SubSeq(t, 1, Len(t) - 1)) ELSE t

trim(t) == trimEnd(trimStart(t))

(* Paths are sequences of segments; an absolute path starts with "/" *)

Cwd == <<"/", "home">>

RECURSIVE dropDots(_)
dropDots(p) ==
  IF p = <<>> THEN <<>>
  ELSE IF Head(p) = "." THEN dropDots(Tail(p))
  ELSE <<Head(p)>> \o dropDots(Tail(p))

resolve(p) ==
  IF p # <<>> /\ Head(p) = "/" THEN dropDots(p) ELSE Cwd \o dropDots(p)

----------------------------------------------------------------------------
(* StateManager (src/src/state.ts) as operators on the ledger *)

NoTimes == [f \in {} |-> 0]

DefaultState == [lastRun |-> Null, processedTasks |-> <<>>, lastModifiedTimes |-> NoTimes]

NoFile == [kind |-> "missing"]

\* The sequence s from its last element to its first
Reverse(s) == [i \in DOMAIN s |-> s[Len(s) + 1 - i]]

\* A faulty variant: the array is written from the newest identity to the oldest
saveStateNewestFirst(st) ==
  [kind |-> "json", lastRun |-> st.lastRun,
   processedTasks |-> Reverse(st.processedTasks),
   lastModifiedTimes |-> st.lastModifiedTimes]

\* saveState: what is written to state.json
saveState(st) ==
  [kind |-> "json", lastRun |-> st.lastRun, processedTasks |-> st.processedTasks,
   lastModifiedTimes |-> st.lastModifiedTimes]

\* A state.json that is not JSON text ("invalid json {"), and one that holds
\* the JSON text of an object without the three fields ("{}")
CorruptFile == [kind |-> "corrupt"]
EmptyObjectFile == [kind |-> "object"]

\* JSON.parse of the text of the file
JSONparse(d) ==
  IF d.kind = "corrupt" THEN [threw |-> TRUE]
  ELSE IF d.kind = "object"
       THEN [threw |-> FALSE, lastRun |-> Null, processedTasks |-> <<>>,
             lastModifiedTimes |-> NoTimes]
       ELSE [threw |-> FALSE, lastRun |-> d.lastRun,
             processedTasks |-> d.processedTasks,
             lastModifiedTimes |-> d.lastModifiedTimes]

\* A faulty variant: the SyntaxError of JSON.parse is not caught
loadStateUncaught(d) ==
  IF d.kind = "missing" THEN DefaultState
  ELSE LET parsed == JSONparse(d)
       IN  IF parsed.threw THEN [raised |-> "SyntaxError"]
           ELSE [lastRun |-> parsed.lastRun,
                 processedTasks |-> parsed.processedTasks,
                 lastModifiedTimes |-> parsed.lastModifiedTimes]

\* loadState: a missing file gives the default state, and so does a file that
\* JSON.parse throws on (the catch block only logs)
loadState(d) ==
  IF d.kind = "missing" THEN DefaultState
  ELSE LET parsed == JSONparse(d)
       IN  IF parsed.threw THEN DefaultState
           ELSE [lastRun |-> parsed.lastRun,
                 processedTasks |-> parsed.processedTasks,
                 lastModifiedTimes |-> parsed.lastModifiedTimes]

getLastRun(st) == st.lastRun

getProcessedTaskCount(st) == Len(st.processedTasks)

\* A faulty variant: the title goes into the hash as it is written
generateTaskHashAsWritten(task, filePath, lineIndex) ==
  <<task.title, resolve(filePath), lineIndex>>

\* The first 16 hex digits of the SHA-256 of the JSON text of {title, filePath,
\* lineIndex} are modelled by the triple itself (no collisions).
generateTaskHash(task, filePath, lineIndex) ==
  <<toLowerCase(trim(task.title)), resolve(filePath), lineIndex>>

\* A faulty variant: the membership test always answers false
isTaskProcessedNever(st, hash) == FALSE

isTaskProcessed(st, hash) == hash \in Range(st.processedTasks)

\* A faulty variant: the set is replaced instead of extended
markTaskProcessedReset(st, hash) == [st EXCEPT !.processedTasks = <<hash>>]

\* Set.add: a hash already in the set keeps its place
markTaskProcessed(st, hash) ==
  IF hash \in Range(st.processedTasks) THEN st
  ELSE [st EXCEPT !.processedTasks = Append(@, hash)]

\* What stands for the mtimeMs of a file that statSync throws on
StatFailed == -1

\* m is what statSync(filePath).mtimeMs returns; the catch block returns true;
\* !lastMtime is true for no stored time and for a stored time of 0
isFileModified(st, filePath, m) ==
  IF m = StatFailed THEN TRUE
  ELSE IF filePath \notin DOMAIN st.lastModifiedTimes THEN TRUE
  ELSE IF st.lastModifiedTimes[filePath] = 0 THEN TRUE
  ELSE m > st.lastModifiedTimes[filePath]

\* A faulty variant: the time is stored for every file of the inbox
updateAllModifiedTimes(st, filePath, m) ==
  [st EXCEPT !.lastModifiedTimes =
     [f \in (DOMAIN @) \cup {filePath, <<"in", "a.md">>, <<"in", "b.md">>} |-> m]]

\* the catch block leaves the ledger as it is
updateFileModifiedTime(st, filePath, m) ==
  IF m = StatFailed THEN st
  ELSE [st EXCEPT !.lastModifiedTimes =
          [f \in (DOMAIN @) \cup {filePath} |-> IF f = filePath THEN m ELSE @[f]]]

\* Math.floor(maxEntries * 0.8)
KeepCount(maxEntries) == (maxEntries * 8) \div 10

cleanupTasks(st, maxEntries) ==
  IF Len(st.processedTasks) > maxEntries
  THEN [st EXCEPT !.processedTasks = SliceLast(@, KeepCount(maxEntries))]
  ELSE st

filesToRemove(st, window, t) ==
  { f \in DOMAIN st.lastModifiedTimes : st.lastModifiedTimes[f] < t - window }

cleanupFiles(st, window, t) ==
  [st EXCEPT !.lastModifiedTimes =
     [f \in (DOMAIN @) \ filesToRemove(st, window, t) |-> @[f]]]

\* cleanup(maxEntries): the new ledger, and whether it was saved
cleanup(st, maxEntries, window, t) ==
  LET needsSave == Len(st.processedTasks) > maxEntries
                   \/ filesToRemove(st, window, t) # {}
  IN  [state |-> cleanupFiles(cleanupTasks(st, maxEntries), window, t),
       needsSave |-> needsSave]

updateLastRun(st, t) == [st EXCEPT !.lastRun = t]

----------------------------------------------------------------------------
(* The inbox directory of Spec *)

FileA == <<"in", "a.md">>
FileB == <<"in", "b.md">>

\* scanDirectory: the markdown files, in readdir's order
FilePaths == <<FileA, FileB>>

Files == Range(FilePaths)

Titles == { <<"a">>, <<"B">> }

\* A file is modelled by what chunkContent cuts it into, each chunk by the titles
\* of the tasks written in it, in the order of the text: a sequence of sequences
\* of titles. No title appears twice in a file (whatever the letter case), but
\* for one content of the second file, whose two chunks start with the same
\* task.
TitlesOf(c) == UNION { Range(c[k]) : k \in DOMAIN c }

InitContents(f) ==
  IF f = FileA
  THEN { << << <<"a">> >> >>,                   \* one chunk, one task
         << << <<"a">> >>, << <<"B">> >> >> }   \* two chunks, one task each
  ELSE { <<>>,                                  \* chunkContent returns no chunk
         << << <<"a">> >> >>,
         << << <<"a">> >>, << <<"B">> >> >>,
         << << <<"a">> >>, << <<"a">> >> >> }   \* the same task in two chunks

InsertAt(s, pos, x) == SubSeq(s, 1, pos) \o <<x>> \o SubSeq(s, pos + 1, Len(s))

\* chunkContent, on the model of a file
chunkContent(fileContent) ==
  [k \in DOMAIN fileContent.content |->
     [filePath |-> fileContent.filePath, content |-> fileContent.content[k],
      chunkIndex |-> k - 1, totalChunks |-> Len(fileContent.content)]]

\* readFiles: the modified files among filePaths[i..], in order
RECURSIVE readFiles(_, _, _, _, _)
readFiles(filePaths, i, st, mt, ct) ==
  IF i > Len(filePaths) THEN <<>>
  ELSE LET filePath == filePaths[i]
       IN  (IF isFileModified(st, filePath, mt[filePath])
            THEN << [filePath |-> filePath, content |-> ct[filePath],
                     modifiedTime |-> mt[filePath]] >>
            ELSE <<>>)
           \o readFiles(filePaths, i + 1, st, mt, ct)

\* What the extraction service finds in a chunk when it answers well
TasksIn(chunk) == [i \in DOMAIN chunk.content |-> [title |-> chunk.content[i]]]

\* Command, "Flatten and deduplicate tasks": the tasks of one extraction result
\* from position i on (i - 1 is the code's index i)
RECURSIVE DedupResult(_, _, _)
DedupResult(result, i, st) ==
  IF i > Len(result.tasks) THEN <<>>
  ELSE LET task == result.tasks[i]
           hash == generateTaskHash(task, result.chunk.filePath, i - 1)
       IN  (IF isTaskProcessed(st, hash) THEN <<>>
            ELSE << [title |-> task.title, hash |-> hash,
                     filePath |-> result.chunk.filePath, lineIndex |-> i - 1] >>)
           \o DedupResult(result, i + 1, st)

RECURSIVE FlattenAndDeduplicate(_, _, _)
FlattenAndDeduplicate(extractionResults, k, st) ==
  IF k > Len(extractionResults) THEN <<>>
  ELSE DedupResult(extractionResults[k], 1, st)
       \o FlattenAndDeduplicate(extractionResults, k + 1, st)

----------------------------------------------------------------------------
(* Spec: Command (runner-hourly.ts; runner-manual.ts runs the same steps) *)

NoTrace ==
  [end |-> "none", readSet |-> {}, staleOnDisk |-> {}, wmUpdated |-> {},
   dispatched |-> {},
   reqs |-> {}, marked |-> {}, startProcessed |-> {}, nCleanup |-> 0,
   nUpdateLastRun |-> 0, reachedSync |-> FALSE]

otherVars == <<cl, up, ex>>

IdleCl == [op |-> "none"]
IdleUp == [op |-> "none"]
IdleEx == [op |-> "none"]

Init ==
  /\ now = 1
  /\ mtime = [f \in Files |-> 1]
  /\ content \in { c \in [Files -> UNION { InitContents(f) : f \in Files }] :
                    \A f \in Files : c[f] \in InitContents(f) }
  /\ disk = NoFile
  /\ state = loadState(disk)
  /\ pages = {}
  /\ pc = "idle"
  /\ fileContents = <<>>
  /\ chunks = <<>>
  /\ results = <<>>
  /\ allTasks = <<>>
  /\ syncResults = <<>>
  /\ loopI = 0
  /\ trace = NoTrace
  /\ cl = IdleCl
  /\ up = IdleUp
  /\ ex = IdleEx

\* Command returns (or its catch block ends): the locals are gone; of what the
\* run did, tr, the calls counted are kept until the next run starts
EndRun(how, tr) ==
  /\ pc' = "ended"
  /\ trace' = [NoTrace EXCEPT !.end = how,
                              !.nCleanup = tr.nCleanup,
                              !.nUpdateLastRun = tr.nUpdateLastRun,
                              !.reachedSync = tr.reachedSync]
  /\ fileContents' = <<>>
  /\ chunks' = <<>>
  /\ results' = <<>>
  /\ allTasks' = <<>>
  /\ syncResults' = <<>>
  /\ loopI' = 0

\* stateManager.updateLastRun() (which saves), and the return that follows it;
\* when writeFileSync fails saveState throws and the catch block of Command ends
\* the run
UpdateLastRunAndReturn(writeOk) ==
  /\ state' = updateLastRun(state, now)
  /\ disk' = IF writeOk THEN saveState(state') ELSE disk
  /\ EndRun(IF writeOk THEN "returned" ELSE "threw",
            [trace EXCEPT !.nUpdateLastRun = @ + 1])
  /\ UNCHANGED <<now, mtime, content, pages, otherVars>>

\* Command starts; the preferences and the health checks are good or not
StartRun(healthy) ==
  /\ pc = "idle"
  /\ IF healthy
     THEN /\ pc' = "ingest"
          /\ trace' = [NoTrace EXCEPT !.end = "running"]
     ELSE /\ pc' = "ended"
          /\ trace' = [NoTrace EXCEPT !.end = "unhealthy"]
  /\ UNCHANGED <<worldVars, fileContents, chunks, results, allTasks,
                 syncResults, loopI, otherVars>>

\* ingestFiles: scanDirectory throws (the run ends in Command's catch block), or
\* readFiles reads the modified files
IngestRead(scanOk) ==
  /\ pc = "ingest"
  /\ IF ~scanOk
     THEN EndRun("threw", trace)
     ELSE LET read == readFiles(FilePaths, 1, state, mtime, content)
          IN  /\ fileContents' = read
              /\ trace' = [trace EXCEPT
                             !.readSet = { read[i].filePath : i \in DOMAIN read },
                             !.staleOnDisk =
                                { read[i].filePath : i \in
                                    { j \in DOMAIN read :
                                        isFileModified(loadState(disk), read[j].filePath,
                                                       read[j].modifiedTime) } }]
              /\ pc' = IF read = <<>> THEN "nochunks" ELSE "chunk"
              /\ loopI' = 1
              /\ UNCHANGED <<chunks, results, allTasks, syncResults>>
  /\ UNCHANGED <<worldVars, otherVars>>

\* A faulty variant: the watermark is saved as soon as it is updated
IngestChunkSaving ==
  /\ pc = "chunk"
  /\ LET fileContent == fileContents[loopI]
         allChunks == chunks \o chunkContent(fileContent)
     IN  /\ chunks' = allChunks
         /\ state' = updateFileModifiedTime(state, fileContent.filePath,
                                            mtime[fileContent.filePath])
         /\ disk' = saveState(state')
         /\ trace' = [trace EXCEPT !.wmUpdated = @ \cup {fileContent.filePath}]
         /\ IF loopI < Len(fileContents)
            THEN /\ loopI' = loopI + 1
                 /\ pc' = "chunk"
                 /\ results' = results
            ELSE /\ loopI' = 0
                 /\ pc' = IF allChunks = <<>> THEN "nochunks" ELSE "extract"
                 /\ results' = [k \in DOMAIN allChunks |-> [st |-> "none", tasks |-> <<>>]]
  /\ UNCHANGED <<now, mtime, content, pages, fileContents, allTasks,
                 syncResults, otherVars>>

\* ingestFiles, one turn of "for (const fileContent of fileContents)": the file is
\* chunked and its watermark updated; after the last turn ingestFiles returns
IngestChunk ==
  /\ pc = "chunk"
  /\ LET fileContent == fileContents[loopI]
         allChunks == chunks \o chunkContent(fileContent)
     IN  /\ chunks' = allChunks
         /\ state' = updateFileModifiedTime(state, fileContent.filePath,
                                            mtime[fileContent.filePath])
         /\ trace' = [trace EXCEPT !.wmUpdated = @ \cup {fileContent.filePath}]
         /\ IF loopI < Len(fileContents)
            THEN /\ loopI' = loopI + 1
                 /\ pc' = "chunk"
                 /\ results' = results
            ELSE /\ loopI' = 0
                 /\ pc' = IF allChunks = <<>> THEN "nochunks" ELSE "extract"
                 /\ results' = [k \in DOMAIN allChunks |-> [st |-> "none", tasks |-> <<>>]]
  /\ UNCHANGED <<now, mtime, content, disk, pages, fileContents, allTasks,
                 syncResults, otherVars>>

\* Command: "if (chunks.length === 0) { stateManager.updateLastRun(); return; }"
NoChunksReturn(writeOk) ==
  /\ pc = "nochunks"
  /\ UpdateLastRunAndReturn(writeOk)

InFlight(rs) == { k \in DOMAIN rs : rs[k].st \notin {"none", "done"} }

\* A faulty variant: a batch of one element more
BatchAndOne(i, n) == (i + 1) .. Min(i + MaxConcurrency + 1, n)

\* slice(i, i + maxConcurrency) of n elements, as positions from 1
Batch(i, n) == (i + 1) .. Min(i + MaxConcurrency, n)

\* extractTasksFromChunks: the next batch is sent, extractTasks(chunk) is called
\* for each of its chunks
ExtractBatch ==
  /\ pc = "extract"
  /\ InFlight(results) = {}
  /\ loopI < Len(chunks)
  /\ results' = [k \in DOMAIN results |->
                   IF k \in Batch(loopI, Len(chunks))
                   THEN [st |-> "inflight", tasks |-> <<>>, chunk |-> chunks[k]]
                   ELSE results[k]]
  /\ trace' = [trace EXCEPT !.dispatched = @ \cup Batch(loopI, Len(chunks))]
  /\ loopI' = loopI + MaxConcurrency
  /\ UNCHANGED <<worldVars, pc, fileContents, chunks, allTasks, syncResults, otherVars>>

\* A faulty variant: the results are kept in the order of completion
ExtractReplyAsCompleted(k, ok) ==
  /\ pc = "extract"
  /\ k \in InFlight(results)
  /\ LET slot == CHOOSE j \in InFlight(results) : \A i \in InFlight(results) : j <= i
     IN  results' = [results EXCEPT
                       ![k] = IF k = slot THEN @ ELSE results[slot],
                       ![slot] = [st |-> "done",
                                  tasks |-> IF ok THEN TasksIn(results[k].chunk) ELSE <<>>,
                                  chunk |-> results[k].chunk]]
  /\ UNCHANGED <<worldVars, pc, fileContents, chunks, allTasks, syncResults,
                 loopI, trace, otherVars>>

\* extractTasks of the k-th chunk resolves, and Promise.all puts its result at
\* the k-th place: the tasks of the chunk, or none (every failure of the
\* extraction ends in "tasks: []"), and the chunk extractTasks was called with
ExtractReply(k, ok) ==
  /\ pc = "extract"
  /\ k \in InFlight(results)
  /\ results' = [results EXCEPT
                   ![k] = [st |-> "done",
                           tasks |-> IF ok THEN TasksIn(results[k].chunk) ELSE <<>>,
                           chunk |-> results[k].chunk]]
  /\ UNCHANGED <<worldVars, pc, fileContents, chunks, allTasks, syncResults,
                 loopI, trace, otherVars>>

\* extractTasksFromChunks returns; Command flattens and deduplicates
Filter ==
  /\ pc = "extract"
  /\ InFlight(results) = {}
  /\ loopI >= Len(chunks)
  /\ LET extractionResults ==
           [k \in DOMAIN results |->
              [tasks |-> results[k].tasks, chunk |-> results[k].chunk]]
         tasks == FlattenAndDeduplicate(extractionResults, 1, state)
     IN  /\ allTasks' = tasks
         /\ syncResults' = [k \in DOMAIN tasks |->
                              [st |-> "none", success |-> FALSE, pageId |-> "none"]]
         /\ pc' = IF tasks = <<>> THEN "notasks" ELSE "sync"
         /\ trace' = [trace EXCEPT !.startProcessed = Range(state.processedTasks),
                                   !.reachedSync = (tasks # <<>>)]
  /\ loopI' = 0
  /\ UNCHANGED <<worldVars, fileContents, chunks, results, otherVars>>

\* Command: "if (allTasks.length === 0) { stateManager.updateLastRun(); return; }"
NoTasksReturn(writeOk) ==
  /\ pc = "notasks"
  /\ UpdateLastRunAndReturn(writeOk)

\* syncTasks: the next batch; createTask(task) is called for each of its tasks
\* and sends its existence query
SyncBatch ==
  /\ pc = "sync"
  /\ InFlight(syncResults) = {}
  /\ loopI < Len(allTasks)
  /\ syncResults' = [k \in DOMAIN syncResults |->
                       IF k \in Batch(loopI, Len(allTasks))
                       THEN [st |-> "query", success |-> FALSE, pageId |-> "none",
                             task |-> allTasks[k].hash]
                       ELSE syncResults[k]]
  /\ trace' = [trace EXCEPT
                 !.reqs = @ \cup { [op |-> "query", idx |-> k] : k \in Batch(loopI, Len(allTasks)) }]
  /\ loopI' = loopI + MaxConcurrency
  /\ UNCHANGED <<worldVars, pc, fileContents, chunks, results, allTasks, otherVars>>

\* A faulty variant: createTask does not ask whether the task exists
SyncQueryReplyBlind(k, ok) ==
  /\ pc = "sync"
  /\ k \in DOMAIN syncResults
  /\ syncResults[k].st = "query"
  /\ syncResults' = [syncResults EXCEPT ![k].st = "create"]
  /\ trace' = [trace EXCEPT !.reqs = @ \cup {[op |-> "create", idx |-> k]}]
  /\ UNCHANGED <<worldVars, pc, fileContents, chunks, results, allTasks, loopI, otherVars>>

\* createTask of item k: taskExists answers (false when the query failed); a task
\* that exists is done, for any other the create request is sent
SyncQueryReply(k, ok) ==
  /\ pc = "sync"
  /\ k \in DOMAIN syncResults
  /\ syncResults[k].st = "query"
  /\ LET exists == ok /\ syncResults[k].task \in pages
     IN  IF exists
         THEN /\ syncResults' = [syncResults EXCEPT
                   ![k] = [st |-> "done", success |-> TRUE, pageId |-> "existing",
                           task |-> syncResults[k].task]]
              /\ trace' = trace
         ELSE /\ syncResults' = [syncResults EXCEPT ![k].st = "create"]
              /\ trace' = [trace EXCEPT !.reqs = @ \cup {[op |-> "create", idx |-> k]}]
  /\ UNCHANGED <<worldVars, pc, fileContents, chunks, results, allTasks, loopI, otherVars>>

\* A faulty variant: the results are kept in the order of completion
SyncCreateReplyAsCompleted(k, ok) ==
  /\ pc = "sync"
  /\ k \in DOMAIN syncResults
  /\ syncResults[k].st = "create"
  /\ LET slot == CHOOSE j \in InFlight(syncResults) :
                   \A i \in InFlight(syncResults) : j <= i
     IN  syncResults' = [syncResults EXCEPT
                           ![k] = IF k = slot THEN @ ELSE syncResults[slot],
                           ![slot] = [st |-> "done", success |-> ok,
                                      pageId |-> IF ok THEN "page" ELSE "none",
                                      task |-> syncResults[k].task]]
  /\ pages' = IF ok THEN pages \cup {syncResults[k].task} ELSE pages
  /\ UNCHANGED <<now, mtime, content, disk, state, pc, fileContents, chunks,
                 results, allTasks, loopI, trace, otherVars>>

\* A faulty variant: the identity is recorded as soon as its page is created
SyncCreateReplyMarking(k, ok) ==
  /\ pc = "sync"
  /\ k \in DOMAIN syncResults
  /\ syncResults[k].st = "create"
  /\ syncResults' = [syncResults EXCEPT
                       ![k] = [st |-> "done", success |-> ok,
                               pageId |-> IF ok THEN "page" ELSE "none",
                               task |-> syncResults[k].task]]
  /\ pages' = IF ok THEN pages \cup {syncResults[k].task} ELSE pages
  /\ state' = IF ok THEN markTaskProcessed(state, syncResults[k].task) ELSE state
  /\ UNCHANGED <<now, mtime, content, disk, pc, fileContents, chunks,
                 results, allTasks, loopI, trace, otherVars>>

\* createTask of the k-th item: the create request is answered; a failure is
\* returned as success: false; Promise.all puts the result at the k-th place
SyncCreateReply(k, ok) ==
  /\ pc = "sync"
  /\ k \in DOMAIN syncResults
  /\ syncResults[k].st = "create"
  /\ syncResults' = [syncResults EXCEPT
                       ![k] = [st |-> "done", success |-> ok,
                               pageId |-> IF ok THEN "page" ELSE "none",
                               task |-> syncResults[k].task]]
  /\ pages' = IF ok THEN pages \cup {syncResults[k].task} ELSE pages
  /\ UNCHANGED <<now, mtime, content, disk, state, pc, fileContents, chunks,
                 results, allTasks, loopI, trace, otherVars>>

\* syncTasks returns
SyncReturn ==
  /\ pc = "sync"
  /\ InFlight(syncResults) = {}
  /\ loopI >= Len(allTasks)
  /\ pc' = "mark"
  /\ loopI' = 1
  /\ UNCHANGED <<worldVars, fileContents, chunks, results, allTasks, syncResults,
                 trace, otherVars>>

\* A faulty variant: every task is marked, whatever its result
MarkSyncedAll ==
  /\ pc = "mark"
  /\ state' = markTaskProcessed(state, allTasks[loopI].hash)
  /\ trace' = [trace EXCEPT !.marked = @ \cup {loopI}]
  /\ IF loopI < Len(syncResults)
     THEN loopI' = loopI + 1 /\ pc' = "mark"
     ELSE loopI' = 0 /\ pc' = "cleanup"
  /\ UNCHANGED <<now, mtime, content, disk, pages, fileContents, chunks, results,
                 allTasks, syncResults, otherVars>>

\* Command, "Mark successfully synced tasks as processed": one turn of the loop
MarkSynced ==
  /\ pc = "mark"
  /\ LET result == syncResults[loopI]
         task == allTasks[loopI]
     IN  IF result.success
         THEN /\ state' = markTaskProcessed(state, task.hash)
              /\ trace' = [trace EXCEPT !.marked = @ \cup {loopI}]
         ELSE /\ state' = state
              /\ trace' = trace
  /\ IF loopI < Len(syncResults)
     THEN loopI' = loopI + 1 /\ pc' = "mark"
     ELSE loopI' = 0 /\ pc' = "cleanup"
  /\ UNCHANGED <<now, mtime, content, disk, pages, fileContents, chunks, results,
                 allTasks, syncResults, otherVars>>

\* A faulty variant: cleanup() is not called
CleanupSkipped(writeOk) ==
  /\ pc = "cleanup"
  /\ writeOk
  /\ pc' = "lastrun"
  /\ UNCHANGED <<worldVars, fileContents, chunks, results, allTasks, syncResults,
                 loopI, trace, otherVars>>

\* Command: stateManager.cleanup(); it saves when it pruned, and when that
\* write fails saveState throws and the catch block of Command ends the run
Cleanup(writeOk) ==
  /\ pc = "cleanup"
  /\ LET c == cleanup(state, MaxEntriesCap, RetentionWindow, now)
         tr == [trace EXCEPT !.nCleanup = @ + 1]
     IN  /\ state' = c.state
         /\ IF writeOk
            THEN /\ disk' = IF c.needsSave THEN saveState(c.state) ELSE disk
                 /\ trace' = tr
                 /\ pc' = "lastrun"
                 /\ UNCHANGED <<fileContents, chunks, results, allTasks,
                                syncResults, loopI>>
            ELSE /\ c.needsSave
                 /\ disk' = disk
                 /\ EndRun("threw", tr)
  /\ UNCHANGED <<now, mtime, content, pages, otherVars>>

\* Command: the last stateManager.updateLastRun(), and the end
Finish(writeOk) ==
  /\ pc = "lastrun"
  /\ UpdateLastRunAndReturn(writeOk)

\* Nothing of the run that ended is left but the ledger
Unload ==
  /\ pc = "ended"
  /\ pc' = "idle"
  /\ trace' = NoTrace
  /\ UNCHANGED <<worldVars, fileContents, chunks, results, allTasks, syncResults,
                 loopI, otherVars>>

\* The process dies and a new one loads the ledger
Crash ==
  /\ pc \notin {"idle", "ended"}
  /\ state' = loadState(disk)
  /\ EndRun("crashed", trace)
  /\ UNCHANGED <<now, mtime, content, disk, pages, otherVars>>

\* Between two runs the process is replaced by one that loads the ledger
Restart ==
  /\ pc = "idle"
  /\ state # loadState(disk)
  /\ state' = loadState(disk)
  /\ UNCHANGED <<now, mtime, content, disk, pages, runVars, otherVars>>

\* The user adds a task to a file: title t at position pos of chunk c (Next
\* edits FileA only)
Edit(f, c, pos, t) ==
  /\ pc = "idle"
  /\ now < MaxClock
  /\ c \in DOMAIN content[f]
  /\ pos \in 0 .. Len(content[f][c])
  /\ Len(content[f][c]) < MaxTasksPerChunk
  /\ toLowerCase(t) \notin { toLowerCase(x) : x \in TitlesOf(content[f]) }
  /\ content' = [content EXCEPT ![f][c] = InsertAt(@, pos, t)]
  /\ now' = now + 1
  /\ mtime' = [mtime EXCEPT ![f] = now']
  /\ UNCHANGED <<disk, state, pages, runVars, otherVars>>

\* Time passes between two runs
Tick ==
  /\ pc = "idle"
  /\ now < MaxClock
  /\ now' = now + 1
  /\ UNCHANGED <<mtime, content, disk, state, pages, runVars, otherVars>>

Next ==
  \/ \E healthy \in BOOLEAN : StartRun(healthy)
  \/ \E scanOk \in BOOLEAN : IngestRead(scanOk)
  \/ IngestChunk
  \/ \E writeOk \in BOOLEAN : NoChunksReturn(writeOk)
  \/ ExtractBatch
  \/ \E k \in DOMAIN results, ok \in BOOLEAN : ExtractReply(k, ok)
  \/ Filter
  \/ \E writeOk \in BOOLEAN : NoTasksReturn(writeOk)
  \/ SyncBatch
  \/ \E k \in DOMAIN syncResults, ok \in BOOLEAN : SyncQueryReply(k, ok)
  \/ \E k \in DOMAIN syncResults, ok \in BOOLEAN : SyncCreateReply(k, ok)
  \/ SyncReturn
  \/ MarkSynced
  \/ \E writeOk \in BOOLEAN : Cleanup(writeOk)
  \/ \E writeOk \in BOOLEAN : Finish(writeOk)
  \/ Unload
  \/ Crash
  \/ Restart
  \/ \E c \in 1 .. 2, pos \in 0 .. MaxTasksPerChunk, t \in Titles :
       Edit(FileA, c, pos, t)
  \/ Tick

Spec == Init /\ [][Next]_vars

----------------------------------------------------------------------------
(* Claims checked under Spec *)

InRun == pc \notin {"idle", "ended"}

ChunksOf(f) == { k \in DOMAIN chunks : chunks[k].filePath = f }

\* The step is one of the running Command (not the death of the process)
RunStep == InRun /\ trace'.end # "crashed"

\* C2 (as claimed; the code does otherwise): after an edit that adds a task, no
\* task the ledger records as processed is forwarded to the Sync Client again:
\* no forwarded item has the title and the file of a processed identity.
C2_OnlyNewForwarded ==
  pc = "sync" =>
    \A k \in DOMAIN allTasks :
      ~ \E h \in Range(state.processedTasks) :
          /\ h[1] = toLowerCase(trim(allTasks[k].title))
          /\ h[2] = resolve(allTasks[k].filePath)

\* C3: markTaskProcessed is called only for an item whose own result, at the
\* same position of syncTasks' output, has success = true; no call is made for
\* an item whose result has success = false, and every identity the run adds
\* is that of an item whose result has success = true (two items of a run can
\* have the same identity, one with success = true and one without).
C3_MarkOnlySynced ==
  pc \in {"mark", "cleanup"} =>
    /\ \A i \in trace.marked : i \in DOMAIN syncResults /\ syncResults[i].success
    /\ \A i \in DOMAIN syncResults : ~syncResults[i].success => i \notin trace.marked
    /\ \A h \in Range(state.processedTasks) \ trace.startProcessed :
         \E j \in trace.marked : allTasks[j].hash = h /\ syncResults[j].success

C3_Witness ==
  /\ pc = "cleanup"
  /\ trace.marked # {}
  /\ \E i \in DOMAIN syncResults : ~syncResults[i].success

\* C4: no existence query and no create request is issued for an item whose
\* hash was in processedTasks when Command filtered it.
C4_ProcessedNotForwarded ==
  \A r \in trace.reqs :
    /\ r.idx \in DOMAIN allTasks
    /\ allTasks[r.idx].hash \notin trace.startProcessed

C4_Witness ==
  /\ pc = "sync"
  /\ trace.reqs # {}
  /\ \E k \in DOMAIN results : \E i \in DOMAIN results[k].tasks :
       generateTaskHash(results[k].tasks[i], chunks[k].filePath, i - 1)
         \in trace.startProcessed

\* C9: every step of a run other than cleanup() leaves processedTasks a
\* superset of what it was.
C9_OnlyGrows ==
  [][(RunStep /\ pc # "cleanup") =>
       Range(state.processedTasks) \subseteq Range(state'.processedTasks)]_vars

\* a run has marked an item and then pruned an older identity
C9_Witness ==
  /\ pc = "lastrun"
  /\ trace.marked # {}
  /\ ~(trace.startProcessed \subseteq Range(state.processedTasks))

\* The watermark of f is higher after the step than before it (or new)
Advanced(f) ==
  /\ f \in DOMAIN state'.lastModifiedTimes
  /\ \/ f \notin DOMAIN state.lastModifiedTimes
     \/ state'.lastModifiedTimes[f] > state.lastModifiedTimes[f]

HandOffPending(f) ==
  \/ pc = "chunk" /\ \E i \in loopI .. Len(fileContents) : fileContents[i].filePath = f
  \/ \E k \in ChunksOf(f) : k \notin trace.dispatched

ExtractionResultsMatch ==
  /\ Len(results) = Len(chunks)
  /\ \A k \in DOMAIN results :
       /\ results[k].st = "done"
       /\ results[k].chunk = chunks[k]
       /\ results[k].tasks \in {TasksIn(chunks[k]), <<>>}

\* C14: no step of extractTasksFromChunks ends the run in the catch block, the
\* result of a chunk that resolved does not change when another chunk resolves,
\* and what it returns is one result for each chunk, in the order of the
\* chunks, each with its own chunk and with the tasks of that chunk or, when its
\* extraction failed, none.
C14_OneResultPerChunk ==
  [][(pc = "extract" /\ RunStep) =>
       /\ trace'.end # "threw"
       /\ pc' \in {"extract", "sync", "notasks"}
       /\ pc' = "extract" =>
            \A k \in DOMAIN results : results[k].st = "done" => results'[k] = results[k]
       /\ pc' # "extract" => ExtractionResultsMatch']_vars

\* the extraction of one chunk failed, that of a chunk of the same group and
\* that of a chunk of the next group gave tasks
C14_Witness ==
  /\ pc = "sync"
  /\ Len(results) > MaxConcurrency
  /\ \E k \in 1 .. MaxConcurrency :
       /\ results[k].tasks = <<>>
       /\ TasksIn(chunks[k]) # <<>>
       /\ \E j \in 1 .. MaxConcurrency : j # k /\ results[j].tasks # <<>>
  /\ results[Len(results)].tasks # <<>>

\* The group of the k-th element (the first group is 0)
GroupOf(k) == (k - 1) \div MaxConcurrency

\* rs, the calls of a batch loop, respect the barrier: at most MaxConcurrency
\* are unresolved, and when a call of a group has started every call of the
\* groups before is resolved
Barrier(rs) ==
  /\ Cardinality(InFlight(rs)) <= MaxConcurrency
  /\ \A j \in DOMAIN rs, k \in DOMAIN rs :
       (GroupOf(j) < GroupOf(k) /\ rs[k].st # "none") => rs[j].st = "done"

\* C15: in extractTasksFromChunks and in syncTasks at most maxConcurrency calls
\* are unresolved, no call of a group has started while a call of a group
\* before is unresolved, and every unresolved call can resolve whatever the
\* state of the other calls of its group.
C15_GroupBarrier ==
  /\ pc = "extract" =>
       /\ Barrier(results)
       /\ \A k \in InFlight(results) : ENABLED ExtractReply(k, TRUE)
  /\ pc = "sync" =>
       /\ Barrier(syncResults)
       /\ \A k \in InFlight(syncResults) :
            ENABLED (SyncQueryReply(k, TRUE) \/ SyncCreateReply(k, TRUE))

\* syncTasks: a call of the first group is unresolved, another has resolved,
\* and the next group waits
C15_Witness ==
  /\ pc = "sync"
  /\ Len(syncResults) > MaxConcurrency
  /\ \E j \in 1 .. MaxConcurrency, k \in 1 .. MaxConcurrency :
       /\ syncResults[j].st = "done"
       /\ k < j
       /\ k \in InFlight(syncResults)
  /\ syncResults[MaxConcurrency + 1].st = "none"

\* What syncTasks has returned: one result for each task, in the order of the
\* tasks, each the result of the createTask called with that task; a success is
\* a page of that task in the store
SyncResultsMatch ==
  /\ Len(syncResults) = Len(allTasks)
  /\ \A i \in DOMAIN syncResults :
       /\ syncResults[i].st = "done"
       /\ syncResults[i].task = allTasks[i].hash
       /\ syncResults[i].success => allTasks[i].hash \in pages
       /\ syncResults[i].success = (syncResults[i].pageId # "none")

\* C19: no step of syncTasks ends the run in the catch block, a result that is
\* there does not change when another createTask resolves, whatever the order
\* in which they resolve, and what syncTasks returns is one result for each
\* task, the i-th being that of the i-th task, a failure included.
C19_OneResultPerItem ==
  [][(pc = "sync" /\ RunStep) =>
       /\ trace'.end # "threw"
       /\ pc' \in {"sync", "mark"}
       /\ pc' = "sync" =>
            \A k \in DOMAIN syncResults :
              syncResults[k].st = "done" => syncResults'[k] = syncResults[k]
       /\ pc' = "mark" => SyncResultsMatch']_vars

\* a failure between two successes, for tasks that differ
C19_Witness ==
  /\ pc = "mark"
  /\ \E i \in DOMAIN syncResults, j \in DOMAIN syncResults, k \in DOMAIN syncResults :
       /\ i < j /\ j < k
       /\ syncResults[i].success
       /\ ~syncResults[j].success
       /\ syncResults[k].success
       /\ allTasks[i].hash # allTasks[j].hash

\* C27: a step of the run that changes processedTasks or lastModifiedTimes is
\* taken while no extraction and no sync request is unresolved, and it is one
\* call of updateFileModifiedTime in ingestFiles, one call of markTaskProcessed
\* after syncTasks, or cleanup.
C27_LedgerChangesBetweenBatches ==
  [][(RunStep /\ \/ state'.processedTasks # state.processedTasks
                 \/ state'.lastModifiedTimes # state.lastModifiedTimes) =>
       /\ InFlight(results) = {}
       /\ InFlight(syncResults) = {}
       /\ pc \in {"chunk", "mark", "cleanup"}
       /\ pc = "chunk" =>
            /\ state'.processedTasks = state.processedTasks
            /\ \E f \in Files : state' = updateFileModifiedTime(state, f, mtime[f])
       /\ pc = "mark" =>
            /\ state'.lastModifiedTimes = state.lastModifiedTimes
            /\ state' = markTaskProcessed(state, allTasks[loopI].hash)]_vars

\* the ledger has got a watermark and an identity in a run of two sync batches
C27_Witness ==
  /\ pc = "cleanup"
  /\ trace.wmUpdated # {}
  /\ trace.marked # {}
  /\ Len(syncResults) > MaxConcurrency
  /\ \E k \in trace.marked : allTasks[k].hash \notin trace.startProcessed

\* C29 (as claimed; the code does otherwise): in a call of syncTasks no two
\* create requests are sent for tasks of the same hash.
C29_OneCreatePerHash ==
  pc = "sync" =>
    \A r \in trace.reqs, q \in trace.reqs :
      (r.op = "create" /\ q.op = "create"
        /\ allTasks[r.idx].hash = allTasks[q.idx].hash) => r.idx = q.idx

\* The step sends the create request of the k-th item
SendsCreate(k) ==
  /\ pc = "sync"
  /\ k \in DOMAIN syncResults
  /\ syncResults[k].st = "query"
  /\ k \in DOMAIN syncResults'
  /\ syncResults'[k].st = "create"

Skipped(st, f, mt) == ~isFileModified(st, f, mt[f])

\* C33 (as claimed; the code does otherwise): a file that a run has chunked is
\* skipped when that run returns, by the ledger in memory and by the one on
\* disk, and a file that a ledger skips stays skipped by it as long as the file
\* is not modified, whatever the step, cleanup included (the ledger in memory
\* is replaced when the process is).
C33_UnchangedFileSkipped ==
  [][\A f \in Files :
       /\ (RunStep /\ trace'.end = "returned" /\ f \in trace.wmUpdated) =>
            /\ Skipped(state', f, mtime')
            /\ Skipped(loadState(disk'), f, mtime')
       /\ (Skipped(loadState(disk), f, mtime) /\ mtime'[f] = mtime[f]) =>
            Skipped(loadState(disk'), f, mtime')
       /\ (Skipped(state, f, mtime) /\ mtime'[f] = mtime[f]
            /\ trace'.end # "crashed" /\ state' # loadState(disk)) =>
            Skipped(state', f, mtime')]_vars

\* The step is the return of Command after an updateLastRun() that returned
Returns == RunStep /\ trace'.end = "returned"

\* C34 (as claimed; the code does otherwise): when the updateLastRun() that
\* ends a run returns, the ledger on disk is the one in memory, and it holds
\* every identity the run has marked and the watermark of every file the run
\* has chunked.
C34_CompletedRunDurable ==
  [][Returns =>
       /\ loadState(disk') = state'
       /\ \A k \in trace.marked :
            allTasks[k].hash \in Range(loadState(disk').processedTasks)
       /\ \A f \in trace.wmUpdated :
            /\ f \in DOMAIN loadState(disk').lastModifiedTimes
            /\ loadState(disk').lastModifiedTimes[f] = mtime[f]]_vars

\* What updateLastRun() itself does: when the updateLastRun() that ends a run returns, the ledger
\* on disk is the one in memory, with lastRun the time of the call; it holds
\* the identities and the watermarks that were in memory before the call,
\* those that the run's cleanup() has left.
C34_LastRunSavesMemory ==
  [][Returns =>
       /\ disk' = saveState(state')
       /\ loadState(disk') = state'
       /\ state'.lastRun = now
       /\ state'.processedTasks = state.processedTasks
       /\ state'.lastModifiedTimes = state.lastModifiedTimes]_vars

\* a run that marked an identity and whose cleanup() has run has returned
C34_Witness ==
  /\ pc = "ended"
  /\ trace.end = "returned"
  /\ trace.nCleanup = 1
  /\ disk = saveState(state)
  /\ state.processedTasks # <<>>
  /\ DOMAIN state.lastModifiedTimes # {}
  /\ state.lastRun = now

\* C35 (as claimed; the code does otherwise): when a run returns, the file of
\* every item whose sync result has success = false, and whose identity the
\* ledger does not hold, is one the next run reads again though nobody
\* modifies it: isFileModified is true of it under the ledger the run leaves,
\* in memory and on disk.
C35_FailedItemStaysEligible ==
  [][(Returns /\ pc = "lastrun") =>
       \A k \in DOMAIN syncResults :
         (/\ ~syncResults[k].success
          /\ ~isTaskProcessed(state', allTasks[k].hash)) =>
           LET f == allTasks[k].filePath
           IN  /\ isFileModified(state', f, mtime'[f])
               /\ isFileModified(loadState(disk'), f, mtime'[f])]_vars

\* C37: the ledger starts empty and the store deletes no record; in every
\* reachable state each identity of processedTasks, in memory and on disk, is
\* the contentHash of a record of the store.
C37_ProcessedHaveRecords ==
  /\ Range(state.processedTasks) \subseteq pages
  /\ Range(loadState(disk).processedTasks) \subseteq pages

\* a run has marked an identity while another item of it has failed
C37_Witness ==
  /\ pc = "mark"
  /\ state.processedTasks # <<>>
  /\ Range(state.processedTasks) \subseteq pages
  /\ \E k \in DOMAIN syncResults :
       /\ k < loopI
       /\ ~syncResults[k].success
       /\ allTasks[k].hash \notin pages

----------------------------------------------------------------------------
(* SpecStore: markTaskProcessed and cleanup(maxEntries) on one ledger *)

StoreMaxHashes == 4      \* the identities are "h1" .. "h4"
StoreMaxCap == 3         \* cleanup is called with maxEntries in 0 .. StoreMaxCap
StoreMaxMtime == 2       \* the modification times of the file are 0 .. StoreMaxMtime

StoreHashes == { <<"h", i>> : i \in 1 .. StoreMaxHashes }

\* The variables of Command, when no Command runs
Parked ==
  /\ now = 1
  /\ mtime = [f \in Files |-> 1]
  /\ content = [f \in Files |-> <<>>]
  /\ disk = NoFile
  /\ pages = {}
  /\ pc = "idle"
  /\ fileContents = <<>>
  /\ chunks = <<>>
  /\ results = <<>>
  /\ allTasks = <<>>
  /\ syncResults = <<>>
  /\ loopI = 0
  /\ trace = NoTrace

InitStore ==
  /\ Parked
  /\ state = loadState(disk)
  /\ cl = [op |-> "load", maxEntries |-> 0, before |-> <<>>]
  /\ up = IdleUp
  /\ ex = IdleEx

StoreMark(hash) ==
  /\ state' = markTaskProcessed(state, hash)
  /\ cl' = [op |-> "mark", maxEntries |-> 0, before |-> state.processedTasks]
  /\ UNCHANGED <<now, mtime, content, disk, pages, runVars, up, ex>>

StoreCleanup(maxEntries) ==
  /\ LET c == cleanup(state, maxEntries, RetentionWindow, now)
     IN  /\ state' = c.state
         /\ disk' = IF c.needsSave THEN saveState(c.state) ELSE disk
  /\ cl' = [op |-> "cleanup", maxEntries |-> maxEntries, before |-> state.processedTasks]
  /\ UNCHANGED <<now, mtime, content, pages, runVars, up, ex>>

\* What state.json can hold when a StateManager is constructed: what the last
\* save wrote, nothing, or what something else wrote
StoreFiles == {disk, NoFile, CorruptFile, EmptyObjectFile}

\* constructor: a new StateManager is constructed on the file d
StoreLoad(d) ==
  /\ disk' = d
  /\ state' = loadState(d)
  /\ cl' = [op |-> "load", maxEntries |-> 0, before |-> state.processedTasks]
  /\ UNCHANGED <<now, mtime, content, pages, runVars, up, ex>>

\* The file gets another modification time (0 is 1 January 1970), or goes away
StoreTouch(m) ==
  /\ mtime[FileA] # m
  /\ mtime' = [mtime EXCEPT ![FileA] = m]
  /\ cl' = [op |-> "touch"]
  /\ UNCHANGED <<now, content, disk, state, pages, runVars, up, ex>>

StoreUpdateTime(filePath) ==
  /\ state' = updateFileModifiedTime(state, filePath, mtime[filePath])
  /\ cl' = [op |-> "updateFileModifiedTime", path |-> filePath]
  /\ UNCHANGED <<now, mtime, content, disk, pages, runVars, up, ex>>

StoreIsModified(filePath) ==
  /\ cl' = [op |-> "isFileModified", path |-> filePath,
            ret |-> isFileModified(state, filePath, mtime[filePath]),
            after |-> cl.op]
  /\ UNCHANGED <<now, mtime, content, disk, state, pages, runVars, up, ex>>

\* updateLastRun(), which saves
StoreUpdateLastRun ==
  /\ state' = updateLastRun(state, now)
  /\ disk' = saveState(state')
  /\ cl' = [op |-> "updateLastRun", maxEntries |-> 0, before |-> state.processedTasks]
  /\ UNCHANGED <<now, mtime, content, pages, runVars, up, ex>>

NextStore ==
  \/ StoreUpdateLastRun
  \/ \E hash \in StoreHashes : StoreMark(hash)
  \/ \E maxEntries \in 0 .. StoreMaxCap : StoreCleanup(maxEntries)
  \/ \E d \in StoreFiles : StoreLoad(d)
  \/ \E m \in {StatFailed} \cup (0 .. StoreMaxMtime) : StoreTouch(m)
  \/ StoreUpdateTime(FileA)
  \/ StoreIsModified(FileA)

SpecStore == InitStore /\ [][NextStore]_vars

\* The last n elements of s
LastN(s, n) == [i \in 1 .. n |-> s[Len(s) - n + i]]

\* C8 (as claimed; the code does otherwise for maxEntries 0 and 1): cleanup of
\* more than maxEntries identities leaves the floor(maxEntries * 0.8) most
\* recently inserted ones, in insertion order; cleanup of maxEntries identities
\* or fewer leaves them as they are.
C8_CleanupBound ==
  cl.op = "cleanup" =>
    IF Len(cl.before) > cl.maxEntries
    THEN state.processedTasks = LastN(cl.before, (cl.maxEntries * 4) \div 5)
    ELSE state.processedTasks = cl.before

\* C20: a StateManager constructed on a state.json that is missing or is not
\* JSON text has a state (loadState has not thrown), and it is the default one:
\* getLastRun() is null, no identity is processed, no file has a watermark.
C20_LoadFallsBackToDefault ==
  (cl.op = "load" /\ disk.kind \in {"missing", "corrupt"}) =>
    /\ DOMAIN state = {"lastRun", "processedTasks", "lastModifiedTimes"}
    /\ getLastRun(state) = Null
    /\ getProcessedTaskCount(state) = 0
    /\ DOMAIN state.lastModifiedTimes = {}

\* a manager that held identities is constructed anew on a file that is not JSON
C20_Witness ==
  /\ cl.op = "load"
  /\ disk.kind = "corrupt"
  /\ cl.before # <<>>
  /\ state = DefaultState

\* C21 (as claimed; the code does otherwise for a stored time of 0):
\* isFileModified(path) returns true exactly when the path has no stored time,
\* or the time of the file is greater than the stored one, or statSync throws;
\* so it returns false right after updateFileModifiedTime(path) on a file that
\* is there.
C21_ModifiedIffNewer ==
  cl.op = "isFileModified" =>
    /\ cl.ret = \/ cl.path \notin DOMAIN state.lastModifiedTimes
                \/ mtime[cl.path] = StatFailed
                \/ mtime[cl.path] > state.lastModifiedTimes[cl.path]
    /\ (cl.after = "updateFileModifiedTime" /\ mtime[cl.path] # StatFailed)
         => ~cl.ret

----------------------------------------------------------------------------
(* SpecIngest: FileIngester.ingestFiles, run after run, on an inbox that
   another process writes to at any moment *)

IngestMaxMtime == 3      \* the files are written at most up to that time

\* What a file of the inbox can hold
IngestContents == { << <<"a">> >>, << <<"a", "b">> >> }

NeverRead == [content |-> <<>>, modifiedTime |-> 0]

\* cl.ingested[f] is the fileContent of f that ingestFiles has chunked last
InitIngest ==
  /\ now = 1
  /\ mtime = [f \in Files |-> 1]
  /\ content \in [Files -> IngestContents]
  /\ disk = NoFile
  /\ state = loadState(disk)
  /\ pages = {}
  /\ pc = "ingest"
  /\ fileContents = <<>>
  /\ chunks = <<>>
  /\ results = <<>>
  /\ allTasks = <<>>
  /\ syncResults = <<>>
  /\ loopI = 1
  /\ trace = NoTrace
  /\ cl = [op |-> "ingestFiles", ingested |-> [f \in Files |-> NeverRead]]
  /\ up = IdleUp
  /\ ex = IdleEx

\* readFiles, one turn of "for (const filePath of filePaths)": statSync,
\* isFileModified and readFileSync of one file
IngestReadFile ==
  /\ pc = "ingest"
  /\ loopI <= Len(FilePaths)
  /\ LET filePath == FilePaths[loopI]
     IN  fileContents' =
           IF isFileModified(state, filePath, mtime[filePath])
           THEN Append(fileContents,
                       [filePath |-> filePath, content |-> content[filePath],
                        modifiedTime |-> mtime[filePath]])
           ELSE fileContents
  /\ loopI' = loopI + 1
  /\ UNCHANGED <<worldVars, pc, chunks, results, allTasks, syncResults, trace,
                 otherVars>>

\* readFiles returns; ingestFiles returns [] when no file was modified
IngestReadReturn ==
  /\ pc = "ingest"
  /\ loopI > Len(FilePaths)
  /\ pc' = IF fileContents = <<>> THEN "returned" ELSE "chunk"
  /\ loopI' = 1
  /\ UNCHANGED <<worldVars, fileContents, chunks, results, allTasks, syncResults,
                 trace, otherVars>>

\* ingestFiles, one turn of "for (const fileContent of fileContents)":
\* chunkContent(fileContent), then updateFileModifiedTime(filePath), which
\* calls statSync again
IngestChunkFile ==
  /\ pc = "chunk"
  /\ LET fileContent == fileContents[loopI]
         filePath == fileContent.filePath
     IN  /\ chunks' = chunks \o chunkContent(fileContent)
         /\ state' = updateFileModifiedTime(state, filePath, mtime[filePath])
         /\ cl' = [cl EXCEPT !.ingested[filePath] =
                     [content |-> fileContent.content,
                      modifiedTime |-> fileContent.modifiedTime]]
  /\ IF loopI < Len(fileContents)
     THEN loopI' = loopI + 1 /\ pc' = "chunk"
     ELSE loopI' = 0 /\ pc' = "returned"
  /\ UNCHANGED <<now, mtime, content, disk, pages, fileContents, results,
                 allTasks, syncResults, trace, up, ex>>

\* The next run calls ingestFiles again
IngestAgain ==
  /\ pc = "returned"
  /\ pc' = "ingest"
  /\ loopI' = 1
  /\ fileContents' = <<>>
  /\ chunks' = <<>>
  /\ UNCHANGED <<worldVars, results, allTasks, syncResults, trace, otherVars>>

\* Another process writes other content to a file of the inbox, at a later time
ExternalWrite(f, c) ==
  /\ mtime[f] < IngestMaxMtime
  /\ c # content[f]
  /\ content' = [content EXCEPT ![f] = c]
  /\ mtime' = [mtime EXCEPT ![f] = @ + 1]
  /\ UNCHANGED <<now, disk, state, pages, runVars, otherVars>>

NextIngest ==
  \/ IngestReadFile
  \/ IngestReadReturn
  \/ IngestChunkFile
  \/ IngestAgain
  \/ \E f \in Files, c \in IngestContents : ExternalWrite(f, c)

SpecIngest == InitIngest /\ [][NextIngest]_vars

\* C36 (as claimed; the code does otherwise): the watermark stored for a file
\* is never later than the modification time of the content of it that was read
\* and chunked, and a file whose content is no longer the content that was
\* chunked is seen as modified by the next isFileModified.
C36_WatermarkOfContentRead ==
  \A f \in DOMAIN state.lastModifiedTimes :
    /\ state.lastModifiedTimes[f] <= cl.ingested[f].modifiedTime
    /\ content[f] # cl.ingested[f].content => isFileModified(state, f, mtime[f])

----------------------------------------------------------------------------
(* SpecChunk: FileIngester.chunkContent on the text of one file *)

ChunkMaxLen == 5         \* the text of the file has at most that many characters
ChunkMaxSize == 2        \* stands for maxChunkSize (8000, ingest.ts:28)

NL == "\n"

\* A text is the sequence of its characters
Chars == {"a", "b", NL}

Texts == UNION { [1 .. n -> Chars] : n \in 0 .. ChunkMaxLen }

\* content.split("\n")
RECURSIVE split(_)
split(text) ==
  IF \A i \in DOMAIN text : text[i] # NL THEN << text >>
  ELSE LET i == CHOOSE j \in DOMAIN text :
                  text[j] = NL /\ \A h \in 1 .. j - 1 : text[h] # NL
       IN  << SubSeq(text, 1, i - 1) >> \o split(SubSeq(text, i + 1, Len(text)))

\* texts.join("\n")
RECURSIVE join(_)
join(texts) ==
  IF Len(texts) = 0 THEN <<>>
  ELSE IF Len(texts) = 1 THEN texts[1]
  ELSE texts[1] \o << NL >> \o join(Tail(texts))

\* the for loop of chunkContent from lines[i] on (i - 1 is the code's i), and the
\* push of the last chunk; an empty currentChunk is a false one
RECURSIVE chunkLines(_, _, _, _, _)
chunkLines(lines, i, currentChunk, pushed, maxChunkSize) ==
  IF i > Len(lines)
  THEN IF currentChunk # <<>> THEN Append(pushed, currentChunk) ELSE pushed
  ELSE LET line == lines[i]
           newChunk == IF currentChunk # <<>>
                       THEN currentChunk \o << NL >> \o line ELSE line
       IN  IF Len(newChunk) > maxChunkSize /\ currentChunk # <<>>
           THEN chunkLines(lines, i + 1, line, Append(pushed, currentChunk),
                           maxChunkSize)
           ELSE chunkLines(lines, i + 1, newChunk, pushed, maxChunkSize)

\* A faulty variant: a small file goes through the loop as well
chunkTextAlwaysSplit(fileContent, maxChunkSize) ==
  LET pushed == chunkLines(split(fileContent.content), 1, <<>>, <<>>, maxChunkSize)
  IN  [k \in DOMAIN pushed |->
         [filePath |-> fileContent.filePath, content |-> pushed[k],
          chunkIndex |-> k - 1, totalChunks |-> Len(pushed)]]

\* chunkContent, on the text of a file
chunkText(fileContent, maxChunkSize) ==
  IF Len(fileContent.content) <= maxChunkSize
  THEN << [filePath |-> fileContent.filePath, content |-> fileContent.content,
           chunkIndex |-> 0, totalChunks |-> 1] >>
  ELSE LET pushed == chunkLines(split(fileContent.content), 1, <<>>, <<>>,
                                maxChunkSize)
       IN  [k \in DOMAIN pushed |->
              [filePath |-> fileContent.filePath, content |-> pushed[k],
               chunkIndex |-> k - 1, totalChunks |-> Len(pushed)]]

InitChunk ==
  /\ Parked
  /\ state = DefaultState
  /\ \E text \in Texts :
       cl = [op |-> "read", fileContent |-> [filePath |-> FileA, content |-> text]]
  /\ up = IdleUp
  /\ ex = IdleEx

ChunkContent ==
  /\ cl.op = "read"
  /\ cl' = [op |-> "chunkContent", fileContent |-> cl.fileContent,
            chunks |-> chunkText(cl.fileContent, ChunkMaxSize)]
  /\ UNCHANGED <<worldVars, runVars, up, ex>>

NextChunk == ChunkContent

SpecChunk == InitChunk /\ [][NextChunk]_vars

ContentsOf(chunkSeq) == [k \in DOMAIN chunkSeq |-> chunkSeq[k].content]

\* The lines of the chunks, one chunk after the other
RECURSIVE LinesOf(_)
LinesOf(texts) ==
  IF Len(texts) = 0 THEN <<>> ELSE split(texts[1]) \o LinesOf(Tail(texts))

\* C22: a text of at most maxChunkSize characters gives one chunk, which holds
\* the text as it is, with chunkIndex 0 and totalChunks 1.
C22_SmallFileOneChunk ==
  (cl.op = "chunkContent" /\ Len(cl.fileContent.content) <= ChunkMaxSize) =>
    cl.chunks = << [filePath |-> cl.fileContent.filePath,
                    content |-> cl.fileContent.content,
                    chunkIndex |-> 0, totalChunks |-> 1] >>

\* a text of exactly maxChunkSize characters, and the empty text
C22_Witness ==
  /\ cl.op = "chunkContent"
  /\ Len(cl.fileContent.content) \in {0, ChunkMaxSize}
  /\ Len(cl.chunks) = 1

\* C23 (as claimed; the code does otherwise): a text of more than maxChunkSize
\* characters gives two chunks or more, their contents joined with newlines
\* are the text, every totalChunks is the number of chunks and the chunkIndex
\* are 0, 1, ... in order.
C23_LargeFileLossless ==
  (cl.op = "chunkContent" /\ Len(cl.fileContent.content) > ChunkMaxSize) =>
    /\ Len(cl.chunks) >= 2
    /\ join(ContentsOf(cl.chunks)) = cl.fileContent.content
    /\ \A k \in DOMAIN cl.chunks :
         /\ cl.chunks[k].totalChunks = Len(cl.chunks)
         /\ cl.chunks[k].chunkIndex = k - 1

\* C24 (as claimed; the code does otherwise): the lines of the chunks, taken in
\* order, are the lines of the text, empty lines included, and a chunk of more
\* than maxChunkSize characters is one line.
C24_LinesKeptWhole ==
  cl.op = "chunkContent" =>
    /\ LinesOf(ContentsOf(cl.chunks)) = split(cl.fileContent.content)
    /\ \A k \in DOMAIN cl.chunks :
         Len(cl.chunks[k].content) > ChunkMaxSize
           => Len(split(cl.chunks[k].content)) = 1

----------------------------------------------------------------------------
(* SpecHash: StateManager.generateTaskHash called for two tasks *)

HashMaxIndex == 1        \* lineIndex is in 0 .. HashMaxIndex

HashTitles ==
  { <<"a">>, <<"A">>, <<" ", "a">>, <<"A", " ">>, <<"a", " ", "B">>,
    <<" ", "A", " ", "b", " ">>, <<"a", "b">>, <<"b">> }

\* ExtractedTask: dueDate is null or a date, tags is null or a list
HashTasks ==
  [title : HashTitles, dueDate : {Null, 1}, tags : {<<>>, <<"shopping">>}]

HashPaths == { FileA, <<".", "in", "a.md">>, <<"/", "home", "in", "b.md">> }

InitHash ==
  /\ Parked
  /\ state = DefaultState
  /\ \E task \in HashTasks, other \in HashTasks, filePath \in HashPaths,
        lineIndex \in 0 .. HashMaxIndex :
       cl = [op |-> "tasks", task |-> task, other |-> other,
             filePath |-> filePath, lineIndex |-> lineIndex]
  /\ up = IdleUp
  /\ ex = IdleEx

GenerateTaskHash ==
  /\ cl.op = "tasks"
  /\ cl' = [op |-> "generateTaskHash", task |-> cl.task, other |-> cl.other,
            filePath |-> cl.filePath, lineIndex |-> cl.lineIndex,
            hash |-> generateTaskHash(cl.task, cl.filePath, cl.lineIndex),
            otherHash |-> generateTaskHash(cl.other, cl.filePath, cl.lineIndex),
            again |-> generateTaskHash(cl.task, cl.filePath, cl.lineIndex)]
  /\ UNCHANGED <<worldVars, runVars, up, ex>>

NextHash == GenerateTaskHash

SpecHash == InitHash /\ [][NextHash]_vars

\* Two characters that are the same letter
SameLetter(c, d) ==
  \/ c = d
  \/ {c, d} \in { {"a", "A"}, {"b", "B"}, {"c", "C"} }

AllSpaces(t, from, to) == \A i \in from .. to : t[i] = " "

\* Two titles that differ only in the case of their letters and in the spaces
\* around them
SameTitle(t, u) ==
  \E a \in 1 .. Len(t) + 1, c \in 1 .. Len(u) + 1, n \in 0 .. Len(t) :
    /\ a + n - 1 <= Len(t)
    /\ c + n - 1 <= Len(u)
    /\ AllSpaces(t, 1, a - 1) /\ AllSpaces(t, a + n, Len(t))
    /\ AllSpaces(u, 1, c - 1) /\ AllSpaces(u, c + n, Len(u))
    /\ \A i \in 0 .. n - 1 : SameLetter(t[a + i], u[c + i])

\* C25: generateTaskHash gives the same identity when it is called again, and
\* gives two tasks of the same path and index the same identity when their
\* titles differ only in letter case and surrounding spaces, whatever their
\* due dates and tags.
C25_HashIgnoresCaseAndSpace ==
  cl.op = "generateTaskHash" =>
    /\ cl.again = cl.hash
    /\ SameTitle(cl.task.title, cl.other.title) => cl.hash = cl.otherHash

\* titles that differ in case and in spaces, with different due dates and tags
C25_Witness ==
  /\ cl.op = "generateTaskHash"
  /\ cl.task.title = <<"a", " ", "B">>
  /\ cl.other.title = <<" ", "A", " ", "b", " ">>
  /\ cl.task.dueDate # cl.other.dueDate
  /\ cl.task.tags # cl.other.tags
  /\ cl.hash = cl.otherHash

----------------------------------------------------------------------------
(* SpecHealth: Command up to the end of performHealthChecks
   (runner-hourly.ts and runner-manual.ts) *)

PreferenceNames == {"inboxDir", "openaiKey", "openaiModel", "notionToken", "notionDbId"}

\* What a health check of a service can answer
HealthAnswers == {"healthy", "unhealthy", "threw"}

\* A preference is TRUE when it is set (a non-empty string); dirAccessible is
\* what fileIngester.healthCheck finds; sent lists the services a request was
\* sent to
InitHealth ==
  /\ Parked
  /\ state = DefaultState
  /\ \E preferences \in [PreferenceNames -> BOOLEAN], enableScheduled \in BOOLEAN,
        hourly \in BOOLEAN, dirAccessible \in BOOLEAN :
       cl = [op |-> "Command", pc |-> "start", preferences |-> preferences,
             enableScheduled |-> enableScheduled, hourly |-> hourly,
             dirAccessible |-> dirAccessible, issues |-> {}, sent |-> <<>>]
  /\ up = IdleUp
  /\ ex = IdleEx

\* Command: the hourly runner returns when the scheduled sync is disabled
CommandStart ==
  /\ cl.pc = "start"
  /\ cl' = [cl EXCEPT !.pc = IF cl.hourly /\ ~cl.enableScheduled
                             THEN "returned" ELSE "preferences"]
  /\ UNCHANGED <<worldVars, runVars, up, ex>>

\* performHealthChecks: "Check preferences"
CheckPreferences ==
  /\ cl.pc = "preferences"
  /\ LET issues == { n \in PreferenceNames : ~cl.preferences[n] }
     IN  cl' = [cl EXCEPT !.issues = issues,
                          !.pc = IF issues # {} THEN "returned" ELSE "filesystem"]
  /\ UNCHANGED <<worldVars, runVars, up, ex>>

\* performHealthChecks: "Check file system access"; the checks go on
FileSystemCheck ==
  /\ cl.pc = "filesystem"
  /\ cl' = [cl EXCEPT !.issues = IF cl.dirAccessible THEN @ ELSE @ \cup {"File system"},
                      !.pc = "openai"]
  /\ UNCHANGED <<worldVars, runVars, up, ex>>

\* performHealthChecks: taskExtractor.healthCheck sends a completion request
OpenAIHealthCheck(answer) ==
  /\ cl.pc = "openai"
  /\ cl' = [cl EXCEPT !.sent = Append(@, "OpenAI"),
                      !.issues = IF answer = "healthy" THEN @ ELSE @ \cup {"OpenAI"},
                      !.pc = "notion"]
  /\ UNCHANGED <<worldVars, runVars, up, ex>>

\* performHealthChecks: notionClient.healthCheck reads the database; Command
\* returns when there is an issue and goes on to ingestFiles when there is none
NotionHealthCheck(answer) ==
  /\ cl.pc = "notion"
  /\ LET issues == IF answer = "healthy" THEN cl.issues ELSE cl.issues \cup {"Notion"}
     IN  cl' = [cl EXCEPT !.sent = Append(@, "Notion"),
                          !.issues = issues,
                          !.pc = IF issues = {} THEN "ingest" ELSE "returned"]
  /\ UNCHANGED <<worldVars, runVars, up, ex>>

NextHealth ==
  \/ CommandStart
  \/ CheckPreferences
  \/ FileSystemCheck
  \/ \E answer \in HealthAnswers : OpenAIHealthCheck(answer)
  \/ \E answer \in HealthAnswers : NotionHealthCheck(answer)

SpecHealth == InitHealth /\ [][NextHealth]_vars

\* A preference is missing, or the inbox directory cannot be read
ConfigurationFailure ==
  \/ \E n \in PreferenceNames : ~cl.preferences[n]
  \/ ~cl.dirAccessible

\* C26 (as claimed; the code does otherwise for a directory that cannot be
\* read): a run whose configuration fails sends no request to the extraction
\* service nor to the record store, and does not go on to ingestFiles.
C26_ConfigFailureNoRequest ==
  (cl.op = "Command" /\ ConfigurationFailure) =>
    /\ cl.sent = <<>>
    /\ cl.pc # "ingest"

----------------------------------------------------------------------------
(* SpecValidate: TaskExtractor.validateAndCleanTasks on the tasks of a reply
   that JSON.parse accepted, as extractTasks calls it *)

ValMaxTasks == 2         \* the reply has at most that many elements

\* A JSON value is its type and what it holds: a string holds its characters,
\* an array of tags its elements
Undefined == [type |-> "undefined", val |-> <<>>]
Number == [type |-> "number", val |-> <<>>]
String(chars) == [type |-> "string", val |-> chars]

IsoDate == <<"2", "0", "2", "5", "-", "0", "1", "-", "1", "5">>
DayMonth == <<"5", "/", "1", "1">>
CurrentYear == <<"2", "0", "2", "5">>

RawTitles == { Undefined, Number, String(<<" ">>), String(<<"a">>),
               String(<<" ", "b", " ">>) }

RawDues == { Undefined, String(<<>>), String(IsoDate), String(DayMonth),
             String(<<"s", "o", "o", "n">>), Number }

RawTags == { Undefined, String(<<"x">>),
             [type |-> "array",
              val |-> << String(<<"x">>), Number, String(<<"y">>) >>] }

\* The elements of the reply: objects, and null
RawElements ==
  [type : {"object"}, title : RawTitles, due : RawDues, tags : RawTags]
    \cup { [type |-> "null", title |-> Undefined, due |-> Undefined,
            tags |-> Undefined] }

RawReplies == UNION { [1 .. n -> RawElements] : n \in 0 .. ValMaxTasks }

IsDigit(c) == c \in {"0", "1", "2", "3", "4", "5", "6", "7", "8", "9"}

\* /^\d{4}-\d{2}-\d{2}$/
MatchesIso(t) ==
  /\ Len(t) = 10
  /\ \A i \in {1, 2, 3, 4, 6, 7, 9, 10} : IsDigit(t[i])
  /\ t[5] = "-" /\ t[8] = "-"

\* /^(\d{1,2})\/(\d{1,2})$/ : the position of the slash, or 0
SlashOfDayMonth(t) ==
  IF \E k \in {2, 3} :
       /\ k < Len(t) /\ Len(t) - k \in {1, 2}
       /\ t[k] = "/"
       /\ \A i \in (1 .. Len(t)) \ {k} : IsDigit(t[i])
  THEN CHOOSE k \in {2, 3} :
       /\ k < Len(t) /\ Len(t) - k \in {1, 2}
       /\ t[k] = "/"
       /\ \A i \in (1 .. Len(t)) \ {k} : IsDigit(t[i])
  ELSE 0

\* padStart(2, '0')
padStart2(t) == IF Len(t) < 2 THEN <<"0">> \o t ELSE t

NullValue == [type |-> "null", val |-> <<>>]

\* normaliseDate(dateStr), called with a value that is not false: test()
\* converts it to a string, match() is a method of strings only
normaliseDate(dateStr) ==
  IF dateStr.type = "string"
  THEN IF MatchesIso(dateStr.val) THEN [threw |-> FALSE, value |-> dateStr]
       ELSE LET k == SlashOfDayMonth(dateStr.val)
            IN  IF k # 0
                THEN [threw |-> FALSE,
                      value |-> String(CurrentYear \o <<"-">>
                                  \o padStart2(SubSeq(dateStr.val, k + 1, Len(dateStr.val)))
                                  \o <<"-">>
                                  \o padStart2(SubSeq(dateStr.val, 1, k - 1)))]
                ELSE [threw |-> FALSE, value |-> NullValue]
  ELSE [threw |-> TRUE, value |-> NullValue]

\* task.due ? ... : null
Truthy(v) ==
  /\ v.type \notin {"undefined", "null"}
  /\ v.type = "string" => v.val # <<>>

\* the filter of validateAndCleanTasks
ValidTask(task) ==
  /\ task.type = "object"
  /\ task.title.type = "string"
  /\ Len(trim(task.title.val)) > 0

\* the map of validateAndCleanTasks, for one task
cleanTask(task) ==
  LET due == IF Truthy(task.due) THEN normaliseDate(task.due)
             ELSE [threw |-> FALSE, value |-> NullValue]
  IN  [threw |-> due.threw,
       task |-> [title |-> trim(task.title.val),
                 due |-> due.value,
                 tags |-> IF task.tags.type = "array"
                          THEN [type |-> "array",
                                val |-> SelectSeq(task.tags.val,
                                                  LAMBDA tag : tag.type = "string")]
                          ELSE NullValue]]

\* validateAndCleanTasks: the tasks, or the TypeError of a map callback
validateAndCleanTasks(rawTasks) ==
  LET kept == SelectSeq(rawTasks, ValidTask)
      cleaned == [i \in DOMAIN kept |-> cleanTask(kept[i])]
  IN  IF \E i \in DOMAIN cleaned : cleaned[i].threw
      THEN [threw |-> TRUE, tasks |-> <<>>]
      ELSE [threw |-> FALSE, tasks |-> [i \in DOMAIN cleaned |-> cleaned[i].task]]

InitValidate ==
  /\ Parked
  /\ state = DefaultState
  /\ \E rawTasks \in RawReplies : cl = [op |-> "reply", rawTasks |-> rawTasks]
  /\ up = IdleUp
  /\ ex = IdleEx

\* extractTasks from the parsed reply on: the catch block returns no task
ExtractValidated ==
  /\ cl.op = "reply"
  /\ LET valid == validateAndCleanTasks(cl.rawTasks)
     IN  cl' = [op |-> "extractTasks", rawTasks |-> cl.rawTasks,
                threw |-> valid.threw,
                tasks |-> IF valid.threw THEN <<>> ELSE valid.tasks]
  /\ UNCHANGED <<worldVars, runVars, up, ex>>

NextValidate == ExtractValidated

SpecValidate == InitValidate /\ [][NextValidate]_vars

\* C31 (as claimed; the code does otherwise): the tasks extractTasks returns
\* are the elements of the reply that are objects with a string title that is
\* not empty once trimmed, in the order of the reply and with the title
\* trimmed, whatever the due and tags of the elements.
C31_ValidElementsSurvive ==
  cl.op = "extractTasks" =>
    LET valid == SelectSeq(cl.rawTasks, ValidTask)
    IN  /\ Len(cl.tasks) = Len(valid)
        /\ \A i \in DOMAIN valid : cl.tasks[i].title = trim(valid[i].title.val)

----------------------------------------------------------------------------
(* SpecUpsert: NotionClient.createTask, one call after the other *)

UpMaxPages == 2          \* no createTask starts for a Task ID with that many pages

UpHashes == { <<"h", 1>>, <<"h", 2>> }

NetError == 0            \* fetch rejects: there is no response
HttpStatuses == {200, 400, 429, 500}

RECURSIVE Pow(_, _)
Pow(b, e) == IF e = 0 THEN 1 ELSE b * Pow(b, e - 1)

\* A faulty variant: one retry more after a rate limit
callNotionRateLimit4(status, attempt) ==
  IF status = NetError THEN [do |-> "throw", delayMs |-> 0]
  ELSE IF status \in 200 .. 299 THEN [do |-> "return", delayMs |-> 0]
  ELSE IF status = 429 /\ attempt <= 4
       THEN [do |-> "retry", delayMs |-> Pow(2, attempt) * 1000]
  ELSE IF status >= 500 /\ attempt <= 2
       THEN [do |-> "retry", delayMs |-> attempt * 2000]
  ELSE [do |-> "throw", delayMs |-> 0]

\* A faulty variant: one retry more after a server error
callNotionServer3(status, attempt) ==
  IF status = NetError THEN [do |-> "throw", delayMs |-> 0]
  ELSE IF status \in 200 .. 299 THEN [do |-> "return", delayMs |-> 0]
  ELSE IF status = 429 /\ attempt <= 3
       THEN [do |-> "retry", delayMs |-> Pow(2, attempt) * 1000]
  ELSE IF status >= 500 /\ attempt <= 3
       THEN [do |-> "retry", delayMs |-> attempt * 2000]
  ELSE [do |-> "throw", delayMs |-> 0]

\* A faulty variant: the delay after a server error does not grow with attempt
callNotionFlatDelay(status, attempt) ==
  IF status = NetError THEN [do |-> "throw", delayMs |-> 0]
  ELSE IF status \in 200 .. 299 THEN [do |-> "return", delayMs |-> 0]
  ELSE IF status = 429 /\ attempt <= 3
       THEN [do |-> "retry", delayMs |-> Pow(2, attempt) * 1000]
  ELSE IF status >= 500 /\ attempt <= 2
       THEN [do |-> "retry", delayMs |-> 2000]
  ELSE [do |-> "throw", delayMs |-> 0]

\* callNotion, from the response on: what it does at this attempt
callNotion(status, attempt) ==
  IF status = NetError THEN [do |-> "throw", delayMs |-> 0]
  ELSE IF status \in 200 .. 299 THEN [do |-> "return", delayMs |-> 0]
  ELSE IF status = 429 /\ attempt <= 3
       THEN [do |-> "retry", delayMs |-> Pow(2, attempt) * 1000]
  ELSE IF status >= 500 /\ attempt <= 2
       THEN [do |-> "retry", delayMs |-> attempt * 2000]
  ELSE [do |-> "throw", delayMs |-> 0]

\* The body of a non-success response: nothing, a JSON error with a message, a
\* JSON error without one, or text that is not JSON
ErrorBodies == {"", "json-message", "json-nomessage", "text"}

\* What the record store answers: a success, a non-success status with a body,
\* or nothing (fetch rejects)
UpReplies ==
  { [status |-> 200, body |-> "ok"], [status |-> NetError, body |-> ""] }
  \cup { [status |-> st, body |-> b] : st \in HttpStatuses \ {200}, b \in ErrorBodies }

\* `HTTP ${response.status}`
HttpText(status) ==
  IF status = 400 THEN "HTTP 400" ELSE IF status = 429 THEN "HTTP 429" ELSE "HTTP 500"

\* callNotion, errorMessage: the message of the JSON error, or the body, or
\* "HTTP <status>" when there is none
errorMessageOf(reply) ==
  IF reply.body = "json-message" THEN "the message of the error"
  ELSE IF reply.body = "json-nomessage" THEN HttpText(reply.status)
  ELSE IF reply.body = "" THEN HttpText(reply.status)
  ELSE reply.body

\* What callNotion throws: the rejection of fetch, or its own Error; a message
\* is the sequence of its parts
thrownBy(reply) ==
  IF reply.status = NetError
  THEN [kind |-> "Error", message |-> <<"fetch failed">>]
  ELSE [kind |-> "Error", message |-> <<"Notion API error: ", errorMessageOf(reply)>>]

\* A faulty variant: the message is lost
getErrorMessageNone(error) == <<>>

\* getErrorMessage
getErrorMessage(error) ==
  IF error.kind = "Error" THEN error.message ELSE <<error.value>>

\* The record store answers the query for Task ID = hash
QueryResponse(store, hash) == [results |-> [i \in 1 .. store[hash] |-> "page"]]

\* A faulty variant: the answer of the store is ignored
taskExistsNever(response) == FALSE

\* taskExists, for a query that was answered
taskExists(response) == Len(response.results) > 0

\* A result without pageId, pageUrl and error has "none" and the empty message
NoResult == [success |-> FALSE, pageId |-> "none", pageUrl |-> "none", error |-> <<>>]

\* A callNotion that was not made
NoCall == [statuses |-> <<>>, delays |-> <<>>, outcome |-> "none"]

\* healthCheck: requiredProperties
RequiredProperties ==
  {"Name", "Status", "Due Date", "Tags", "Task ID", "Captured From"}

\* The columns the README tells the user to create
ReadmeColumns == {"Name", "Status", "Due Date", "Tags", "Task ID", "Source"}

\* Object.keys(database.properties || {}) of the databases healthCheck is
\* called on
DatabaseSchemas ==
  { ReadmeColumns, RequiredProperties, ReadmeColumns \cup RequiredProperties,
    {"Name", "Status"}, {} }

missingProperties(existingProperties) == RequiredProperties \ existingProperties

\* A database that was not retrieved
NoDatabase == [retrieved |-> FALSE, properties |-> {}, missing |-> {}]

\* up.phase: the callNotion under way ("query": that of taskExists, "create":
\* that of createTask, "schema" and "probe": those of healthCheck); attempt,
\* statuses, delays and outcome are those of the callNotion under way or last
\* ended, q those of the query of the createTask under way or last ended
InitUpsert ==
  /\ Parked
  /\ state = loadState(disk)
  /\ cl = IdleCl
  /\ ex = IdleEx
  /\ up = [store |-> [h \in UpHashes |-> 0], phase |-> "idle", hash |-> <<"h", 1>>,
           attempt |-> 0, nQuery |-> 0, nCreate |-> 0, delays |-> <<>>,
           existed |-> 0, queryOk |-> FALSE, result |-> NoResult,
           queryFailed |-> {}, statuses |-> <<>>, outcome |-> "none",
           q |-> NoCall, health |-> "none", db |-> NoDatabase]

\* createTask(task) is called and taskExists sends the query
UpsertStart(hash) ==
  /\ up.phase \in {"idle", "done"}
  /\ up.store[hash] < UpMaxPages
  /\ up' = [up EXCEPT !.phase = "query", !.hash = hash, !.attempt = 1,
                      !.nQuery = 1, !.nCreate = 0, !.delays = <<>>,
                      !.existed = up.store[hash], !.queryOk = FALSE,
                      !.result = NoResult, !.statuses = <<>>,
                      !.outcome = "pending", !.q = NoCall, !.health = "none",
                      !.db = NoDatabase]
  /\ UNCHANGED <<worldVars, runVars, cl, ex>>

\* callNotion has the reply: the call as it is after it
Answered(reply) ==
  LET r == callNotion(reply.status, up.attempt)
      seen == [up EXCEPT !.statuses = Append(@, reply.status)]
  IN  IF r.do = "retry"
      THEN [seen EXCEPT !.attempt = @ + 1, !.delays = Append(@, r.delayMs)]
      ELSE [seen EXCEPT !.outcome = IF r.do = "throw" THEN "threw" ELSE "returned"]

\* The next callNotion of the same operation is sent
NextCall(u, phase) ==
  [u EXCEPT !.phase = phase, !.attempt = 1, !.delays = <<>>, !.statuses = <<>>,
            !.outcome = "pending"]

\* A faulty variant: the error of the query ends createTask
QueryReplyRaising(reply) ==
  /\ up.phase = "query"
  /\ LET r == callNotion(reply.status, up.attempt)
         a == Answered(reply)
         toCreate == [NextCall(a, "create") EXCEPT
                        !.nCreate = 1,
                        !.q = [statuses |-> a.statuses, delays |-> a.delays,
                               outcome |-> a.outcome]]
     IN  up' =
           IF r.do = "retry"
           THEN [a EXCEPT !.nQuery = @ + 1]
           ELSE IF r.do = "throw"
           THEN [a EXCEPT !.phase = "done", !.queryFailed = @ \cup {up.hash},
                          !.q = [statuses |-> a.statuses, delays |-> a.delays,
                                 outcome |-> a.outcome],
                          !.result = [success |-> FALSE, pageId |-> "none",
                                      pageUrl |-> "none",
                                      error |-> getErrorMessage(thrownBy(reply))]]
           ELSE IF taskExists(QueryResponse(up.store, up.hash))
           THEN [a EXCEPT !.phase = "done", !.queryOk = TRUE,
                          !.q = [statuses |-> a.statuses, delays |-> a.delays,
                                 outcome |-> a.outcome],
                          !.result = [success |-> TRUE, pageId |-> "existing",
                                      pageUrl |-> "existing", error |-> <<>>]]
           ELSE [toCreate EXCEPT !.queryOk = TRUE]
  /\ UNCHANGED <<worldVars, runVars, cl, ex>>

\* the query is answered (or fetch rejects)
QueryReply(reply) ==
  /\ up.phase = "query"
  /\ LET r == callNotion(reply.status, up.attempt)
         a == Answered(reply)
         toCreate == [NextCall(a, "create") EXCEPT
                        !.nCreate = 1,
                        !.q = [statuses |-> a.statuses, delays |-> a.delays,
                               outcome |-> a.outcome]]
     IN  up' =
           IF r.do = "retry"
           THEN [a EXCEPT !.nQuery = @ + 1]
           ELSE IF r.do = "throw"
           THEN [toCreate EXCEPT !.queryFailed = @ \cup {up.hash}]
           ELSE IF taskExists(QueryResponse(up.store, up.hash))
           THEN [a EXCEPT !.phase = "done", !.queryOk = TRUE,
                          !.q = [statuses |-> a.statuses, delays |-> a.delays,
                                 outcome |-> a.outcome],
                          !.result = [success |-> TRUE, pageId |-> "existing",
                                      pageUrl |-> "existing", error |-> <<>>]]
           ELSE [toCreate EXCEPT !.queryOk = TRUE]
  /\ UNCHANGED <<worldVars, runVars, cl, ex>>

\* the create request is answered (or fetch rejects); the store creates the page
\* when it answers 200
CreateReply(reply) ==
  /\ up.phase = "create"
  /\ LET r == callNotion(reply.status, up.attempt)
         a == Answered(reply)
     IN  up' =
           IF r.do = "retry"
           THEN [a EXCEPT !.nCreate = @ + 1]
           ELSE IF r.do = "throw"
           THEN [a EXCEPT !.phase = "done",
                          !.result = [success |-> FALSE, pageId |-> "none",
                                      pageUrl |-> "none",
                                      error |-> getErrorMessage(thrownBy(reply))]]
           ELSE [a EXCEPT !.phase = "done",
                          !.store[up.hash] = @ + 1,
                          !.result = [success |-> TRUE, pageId |-> "page-id",
                                      pageUrl |-> "page-url", error |-> <<>>]]
  /\ UNCHANGED <<worldVars, runVars, cl, ex>>

\* healthCheck is called and retrieves the database
HealthStart ==
  /\ up.phase \in {"idle", "done"}
  /\ up' = [NextCall(up, "schema") EXCEPT !.health = "none", !.q = NoCall,
                                          !.result = NoResult, !.existed = 0,
                                          !.queryOk = FALSE, !.nQuery = 0,
                                          !.nCreate = 0, !.db = NoDatabase]
  /\ UNCHANGED <<worldVars, runVars, cl, ex>>

\* healthCheck: the database is retrieved, and has the required properties
\* (then the query with page_size 1 follows) or misses some (then the message
\* lists them), or callNotion throws
SchemaReply(reply, existingProperties) ==
  /\ up.phase = "schema"
  /\ LET r == callNotion(reply.status, up.attempt)
         a == Answered(reply)
         db == [retrieved |-> TRUE, properties |-> existingProperties,
                missing |-> missingProperties(existingProperties)]
     IN  up' =
           IF r.do = "retry" THEN a
           ELSE IF r.do = "throw"
           THEN [a EXCEPT !.phase = "done", !.health = "unhealthy"]
           ELSE IF db.missing # {}
           THEN [a EXCEPT !.phase = "done", !.health = "unhealthy", !.db = db]
           ELSE [NextCall(a, "probe") EXCEPT
                   !.db = db,
                   !.q = [statuses |-> a.statuses, delays |-> a.delays,
                          outcome |-> a.outcome]]
  /\ UNCHANGED <<worldVars, runVars, cl, ex>>

\* healthCheck: the query with page_size 1 is answered
ProbeReply(reply) ==
  /\ up.phase = "probe"
  /\ LET r == callNotion(reply.status, up.attempt)
         a == Answered(reply)
     IN  up' =
           IF r.do = "retry" THEN a
           ELSE [a EXCEPT !.phase = "done",
                          !.health = IF r.do = "throw" THEN "unhealthy" ELSE "healthy"]
  /\ UNCHANGED <<worldVars, runVars, cl, ex>>

NextUpsert ==
  \/ \E hash \in UpHashes : UpsertStart(hash)
  \/ \E reply \in UpReplies : QueryReply(reply)
  \/ \E reply \in UpReplies : CreateReply(reply)
  \/ HealthStart
  \/ \E reply \in UpReplies, existingProperties \in DatabaseSchemas :
       SchemaReply(reply, existingProperties)
  \/ \E reply \in UpReplies : ProbeReply(reply)

SpecUpsert == InitUpsert /\ [][NextUpsert]_vars

\* C1: a createTask for a Task ID that has a page, whose existence query is
\* answered, returns success with pageId and pageUrl "existing" and sends no
\* create request; so a Task ID whose queries were all answered has one page
\* at most.
C1_IdempotentUpsert ==
  /\ (up.phase = "done" /\ up.existed >= 1 /\ up.queryOk) =>
        /\ up.result.success
        /\ up.result.pageId = "existing"
        /\ up.result.pageUrl = "existing"
        /\ up.nCreate = 0
        /\ up.store[up.hash] = up.existed
  /\ \A h \in UpHashes : h \notin up.queryFailed => up.store[h] <= 1

\* the second createTask of a Task ID has returned
C1_Witness ==
  /\ up.phase = "done"
  /\ up.existed = 1
  /\ up.queryOk
  /\ up.result.pageId = "existing"
  /\ up.store[up.hash] = 1

\* The callNotion under way or last ended, and the query before it
ThisCall == [statuses |-> up.statuses, delays |-> up.delays, outcome |-> up.outcome]

Calls == {ThisCall, up.q}

\* Every response of the sequence has a status of sts
AllIn(statuses, sts) == \A i \in DOMAIN statuses : statuses[i] \in sts

\* C16: a callNotion that received a 429 and then a success has returned after
\* 2 requests, one retry 2 s after the 429 (a createTask whose query was
\* answered at once, 3 requests); one that receives only 429s waits 2 s, 4 s and
\* 8 s before its second, third and fourth request and throws at the fourth
\* 429, which createTask returns as a failure.
C16_SyncRateLimitRetry ==
  /\ \A c \in Calls :
       /\ Len(c.statuses) <= 4
       /\ c.statuses = <<429, 200>> => c.outcome = "returned" /\ c.delays = <<2000>>
       /\ (c.statuses # <<>> /\ AllIn(c.statuses, {429})) =>
            IF Len(c.statuses) = 4
            THEN c.outcome = "threw" /\ c.delays = <<2000, 4000, 8000>>
            ELSE /\ c.outcome = "pending"
                 /\ c.delays = SubSeq(<<2000, 4000, 8000>>, 1, Len(c.statuses))
  /\ (up.phase = "done" /\ up.nCreate > 0 /\ up.statuses = <<429, 200>>) =>
       /\ up.result.success
       /\ up.result.pageId = "page-id"
       /\ up.nCreate = 2
       /\ up.q.statuses = <<200>> => up.nQuery + up.nCreate = 3
  /\ (up.phase = "done" /\ up.nCreate > 0 /\ up.statuses = <<429, 429, 429, 429>>) =>
       /\ ~up.result.success
       /\ up.nCreate = 4

\* the test "should retry on rate limits": the query is answered, the create
\* request is answered 429 and then 200
C16_Witness ==
  /\ up.phase = "done"
  /\ up.q.statuses = <<200>>
  /\ up.statuses = <<429, 200>>
  /\ up.nQuery + up.nCreate = 3
  /\ up.result.success

\* C17: a callNotion that receives only server errors, whatever the request
\* (query, create, retrieval of the database), waits 2 s and 4 s before its
\* second and third request and throws at the third server error.
C17_SyncServerErrorRetry ==
  \A c \in Calls :
    (c.statuses # <<>> /\ AllIn(c.statuses, {s \in HttpStatuses : s >= 500})) =>
      /\ Len(c.statuses) <= 3
      /\ IF Len(c.statuses) = 3
         THEN c.outcome = "threw" /\ c.delays = <<2000, 4000>>
         ELSE /\ c.outcome = "pending"
              /\ c.delays = SubSeq(<<2000, 4000>>, 1, Len(c.statuses))

\* the retrieval of the database has failed with three server errors, after a
\* createTask whose query failed the same way
C17_Witness ==
  /\ up.phase = "done"
  /\ up.health = "unhealthy"
  /\ up.statuses = <<500, 500, 500>>
  /\ up.delays = <<2000, 4000>>
  /\ \E h \in up.queryFailed : up.store[h] >= 1

\* C38: the two retry policies count the same attempts. A callNotion that
\* receives only 429s and server errors, in any order, sends at most 4
\* requests; a server error at the 3rd or a later request is not retried (the
\* call throws); the delay after the i-th response is 2^i s when it is a 429
\* and 2 * i s when it is a server error.
C38_SharedAttemptCounter ==
  \A c \in Calls :
    (c.statuses # <<>> /\ AllIn(c.statuses, {s \in HttpStatuses : s = 429 \/ s >= 500})) =>
      /\ Len(c.statuses) <= 4
      /\ Len(c.delays) = IF c.outcome = "threw" THEN Len(c.statuses) - 1
                         ELSE Len(c.statuses)
      /\ \A i \in DOMAIN c.delays :
           c.delays[i] = IF c.statuses[i] = 429 THEN Pow(2, i) * 1000 ELSE i * 2000
      /\ \A i \in DOMAIN c.statuses :
           (c.statuses[i] >= 500 /\ i >= 3) =>
             /\ i = Len(c.statuses)
             /\ c.outcome = "threw"
      /\ c.outcome = "threw" <=>
           \/ Len(c.statuses) = 4
           \/ Len(c.statuses) = 3 /\ c.statuses[3] >= 500

\* two 429s, then a server error at the third request, which is not retried
C38_Witness ==
  /\ up.statuses = <<429, 429, 500>>
  /\ up.outcome = "threw"
  /\ up.delays = <<2000, 4000>>
  /\ up.q.statuses = <<500, 429, 429, 429>>
  /\ up.q.delays = <<2000, 4000, 8000>>

\* The text has a part that is not empty
NonEmptyText(t) == \E i \in DOMAIN t : t[i] # ""

\* C18: createTask always returns: when the callNotion of the create request
\* throws (a 4xx that is not a 429, retries used up, fetch rejected) the result
\* has success false, an error message that is not empty, and neither pageId
\* nor pageUrl; when it returns the result has success true and no error.
C18_UpsertReturnsFailures ==
  (up.phase = "done" /\ up.nCreate > 0) =>
    /\ up.outcome \in {"threw", "returned"}
    /\ up.outcome = "threw" =>
         /\ ~up.result.success
         /\ NonEmptyText(up.result.error)
         /\ up.result.pageId = "none"
         /\ up.result.pageUrl = "none"
         /\ up.store[up.hash] = up.existed
    /\ up.outcome = "returned" =>
         /\ up.result.success
         /\ up.result.error = <<>>

\* a 400 without a body, after a server error that was retried
C18_Witness ==
  /\ up.phase = "done"
  /\ up.nCreate = 2
  /\ up.statuses = <<500, 400>>
  /\ up.result.error = <<"Notion API error: ", "HTTP 400">>

\* C28 (as claimed; the code does otherwise): a healthCheck that retrieved a
\* database with the columns Name, Status, Due Date, Tags, Task ID and Source,
\* and whose calls all returned, answers healthy; one that retrieved a database
\* without some of these columns answers unhealthy and lists each of them; one
\* that could not retrieve the database answers unhealthy.
C28_HealthCheckColumns ==
  (up.phase = "done" /\ up.health # "none") =>
    /\ (up.db.retrieved /\ ReadmeColumns \subseteq up.db.properties
          /\ up.outcome = "returned") => up.health = "healthy"
    /\ (up.db.retrieved /\ ~(ReadmeColumns \subseteq up.db.properties)) =>
          /\ up.health = "unhealthy"
          /\ (ReadmeColumns \ up.db.properties) \subseteq up.db.missing
    /\ ~up.db.retrieved => up.health = "unhealthy"

\* The existence query has ended in an error: a status that callNotion does
\* not retry or has retried as often as it does, or a rejected fetch
QueryEndedInError ==
  /\ up.nQuery >= 1
  /\ up.q.outcome = "threw"

\* C30: when the callNotion of taskExists throws, taskExists returns false:
\* createTask sends the create request, and its result is that of the create
\* request alone (success when the page is created).
C30_FailedQueryThenCreate ==
  (up.phase \in {"create", "done"} /\ QueryEndedInError) =>
    /\ up.nCreate >= 1
    /\ ~up.queryOk
    /\ up.hash \in up.queryFailed
    /\ Last(up.q.statuses) \notin 200 .. 299
    /\ up.phase = "done" =>
         /\ up.result.success = (up.outcome = "returned")
         /\ up.result.success => up.result.pageId = "page-id"

\* the query was rate limited four times, and the page was then created
C30_Witness ==
  /\ up.phase = "done"
  /\ up.q.statuses = <<429, 429, 429, 429>>
  /\ up.q.outcome = "threw"
  /\ up.result.success
  /\ up.store[up.hash] = up.existed + 1

----------------------------------------------------------------------------
(* SpecExtract: TaskExtractor.extractTasks for one chunk *)

ExcerptChars == 1000     \* chunk.content.substring(0, 1000) of the strict prompt

\* The chunks extractTasks is called with: an id and the length of the content
ExChunks == { [id |-> 1, len |-> 500], [id |-> 2, len |-> 1500] }

\* What the extraction service answers: a status, and with 200 a body: content
\* that parses as JSON, content that does not, or no choice at all
Replies ==
  { [status |-> 200, body |-> b] : b \in {"json", "garbage", "nochoices"} }
  \cup { [status |-> st, body |-> "error"] : st \in {400, 429, 500, NetError} }

\* A faulty variant: one retry more
callOpenAIRetry4(reply, attempt) ==
  IF reply.status = NetError THEN [do |-> "throw", delayMs |-> 0]
  ELSE IF reply.status \notin 200 .. 299
  THEN IF reply.status = 429 /\ attempt <= 4
       THEN [do |-> "retry", delayMs |-> Pow(2, attempt) * 1000]
       ELSE [do |-> "throw", delayMs |-> 0]
  ELSE IF reply.body = "nochoices" THEN [do |-> "throw", delayMs |-> 0]
  ELSE [do |-> "return", delayMs |-> 0]

\* A faulty variant: every non-success response is retried
callOpenAIRetryAll(reply, attempt) ==
  IF reply.status = NetError THEN [do |-> "throw", delayMs |-> 0]
  ELSE IF reply.status \notin 200 .. 299
  THEN IF attempt <= 3
       THEN [do |-> "retry", delayMs |-> Pow(2, attempt) * 1000]
       ELSE [do |-> "throw", delayMs |-> 0]
  ELSE IF reply.body = "nochoices" THEN [do |-> "throw", delayMs |-> 0]
  ELSE [do |-> "return", delayMs |-> 0]

\* A faulty variant: the policy of callNotion, server errors retried
callOpenAIRetry5xx(reply, attempt) ==
  IF reply.status = NetError THEN [do |-> "throw", delayMs |-> 0]
  ELSE IF reply.status \notin 200 .. 299
  THEN IF reply.status = 429 /\ attempt <= 3
       THEN [do |-> "retry", delayMs |-> Pow(2, attempt) * 1000]
       ELSE IF reply.status >= 500 /\ attempt <= 2
       THEN [do |-> "retry", delayMs |-> attempt * 2000]
       ELSE [do |-> "throw", delayMs |-> 0]
  ELSE IF reply.body = "nochoices" THEN [do |-> "throw", delayMs |-> 0]
  ELSE [do |-> "return", delayMs |-> 0]

\* callOpenAI, from the response on: what it does at this attempt
callOpenAI(reply, attempt) ==
  IF reply.status = NetError THEN [do |-> "throw", delayMs |-> 0]
  ELSE IF reply.status \notin 200 .. 299
  THEN IF reply.status = 429 /\ attempt <= 3
       THEN [do |-> "retry", delayMs |-> Pow(2, attempt) * 1000]
       ELSE [do |-> "throw", delayMs |-> 0]
  ELSE IF reply.body = "nochoices" THEN [do |-> "throw", delayMs |-> 0]
  ELSE [do |-> "return", delayMs |-> 0]

\* A faulty variant: content that does not parse is always asked again
parseJsonResponseAgain(responseContent, phase) ==
  IF responseContent = "json" THEN "parsed" ELSE "corrective"

\* parseJsonResponse: content that parses is returned; content that does not
\* parse leads to the corrective callOpenAI when it is the reply to the prompt
\* of extractTasks, and to "tasks: []" when it is the reply to the strict prompt
parseJsonResponse(responseContent, phase) ==
  IF responseContent = "json" THEN "parsed"
  ELSE IF phase = "first" THEN "corrective"
  ELSE "empty"

\* The request of extractTasks: the prompt built from the whole chunk
ExtractRequest(chunk) == [prompt |-> "extract", chars |-> chunk.len]

\* The request of parseJsonResponse: the strict prompt and the first characters
\* of the chunk
StrictRequest(chunk) == [prompt |-> "strict", chars |-> Min(chunk.len, ExcerptChars)]

NoChunk == [id |-> 0, len |-> 0]

\* ex.phase: which callOpenAI is under way ("first": that of extractTasks,
\* "corrective": that of parseJsonResponse); attempt, requests, delays, statuses,
\* body and outcome are those of the callOpenAI under way or last ended; total
\* and answered count the requests of the extractTasks call and their replies;
\* contents are the contents the callOpenAI calls returned; tasks and
\* resultChunk are what extractTasks returns
InitExtract ==
  /\ Parked
  /\ state = loadState(disk)
  /\ cl = IdleCl
  /\ up = IdleUp
  /\ ex = [phase |-> "idle", chunk |-> NoChunk, request |-> ExtractRequest(NoChunk),
           attempt |-> 0, requests |-> 0, total |-> 0, answered |-> 0,
           delays |-> <<>>, statuses |-> <<>>, body |-> "none",
           outcome |-> "none", contents |-> <<>>, tasks |-> "none",
           resultChunk |-> NoChunk]

\* extractTasks(chunk) is called and callOpenAI sends the request
ExtractStart(chunk) ==
  /\ ex.phase \in {"idle", "done"}
  /\ ex' = [phase |-> "first", chunk |-> chunk, request |-> ExtractRequest(chunk),
            attempt |-> 1, requests |-> 1, total |-> 1, answered |-> 0,
            delays |-> <<>>, statuses |-> <<>>, body |-> "none",
            outcome |-> "pending", contents |-> <<>>, tasks |-> "none",
            resultChunk |-> NoChunk]
  /\ UNCHANGED <<worldVars, runVars, cl, up>>

\* the request is answered (or fetch rejects)
OpenAIReply(reply) ==
  /\ ex.phase \in {"first", "corrective"}
  /\ LET r == callOpenAI(reply, ex.attempt)
         seen == [ex EXCEPT !.statuses = Append(@, reply.status), !.body = reply.body,
                            !.answered = @ + 1]
         got == [seen EXCEPT !.contents = Append(@, reply.body), !.outcome = "returned"]
         parsed == parseJsonResponse(reply.body, ex.phase)
     IN  ex' =
           IF r.do = "retry"
           THEN [seen EXCEPT !.attempt = @ + 1, !.requests = @ + 1, !.total = @ + 1,
                             !.delays = Append(@, r.delayMs)]
           ELSE IF r.do = "throw"
           THEN \* the catch block of extractTasks, or that of parseJsonResponse
                [seen EXCEPT !.phase = "done", !.outcome = "threw", !.tasks = "empty",
                             !.resultChunk = ex.chunk]
           ELSE IF parsed = "corrective"
           THEN [got EXCEPT !.phase = "corrective", !.request = StrictRequest(ex.chunk),
                            !.attempt = 1, !.requests = 1, !.total = @ + 1,
                            !.delays = <<>>, !.statuses = <<>>, !.outcome = "pending"]
           ELSE [got EXCEPT !.phase = "done", !.tasks = parsed, !.resultChunk = ex.chunk]
  /\ UNCHANGED <<worldVars, runVars, cl, up>>

NextExtract ==
  \/ \E chunk \in ExChunks : ExtractStart(chunk)
  \/ \E reply \in Replies : OpenAIReply(reply)

SpecExtract == InitExtract /\ [][NextExtract]_vars

\* C10: a callOpenAI that keeps receiving 429 sends 4 requests at most, waits
\* 2 s, 4 s and 8 s before the second, third and fourth, and throws at the
\* fourth 429; a 429 followed by a 200 with a choice returns after 2 requests.
C10_RateLimitRetry ==
  /\ ex.requests <= 4
  /\ Len(ex.delays) = (IF ex.requests = 0 THEN 0 ELSE ex.requests - 1)
  /\ ex.delays = SubSeq(<<2000, 4000, 8000>>, 1, Len(ex.delays))
  /\ ex.statuses = <<429, 429, 429>> => ex.outcome = "pending" /\ ex.requests = 4
  /\ ex.statuses = <<429, 429, 429, 429>> =>
        ex.outcome = "threw" /\ ex.requests = 4 /\ ex.tasks = "empty"
  /\ (ex.statuses = <<429, 200>> /\ ex.body # "nochoices" /\ ex.phase = "done") =>
        ex.outcome = "returned" /\ ex.requests = 2 /\ ex.delays = <<2000>>

\* the fourth 429 has ended the call
C10_Witness ==
  /\ ex.phase = "done"
  /\ ex.statuses = <<429, 429, 429, 429>>
  /\ ex.delays = <<2000, 4000, 8000>>


\* The response is a non-success one that is not a rate limit
OtherError(status) == status # NetError /\ status \notin 200 .. 299 /\ status # 429

\* C11: a non-success response other than 429 ends the extraction of the chunk at
\* once: no request follows it, and extractTasks returns no task, with the chunk
\* it was called with.
C11_OtherErrorFailsAtOnce ==
  (ex.statuses # <<>> /\ OtherError(Last(ex.statuses))) =>
    /\ ex.phase = "done"
    /\ ex.outcome = "threw"
    /\ ex.total = ex.answered
    /\ ex.requests = Len(ex.statuses)
    /\ ex.tasks = "empty"
    /\ ex.resultChunk = ex.chunk

\* a rate limit, retried, and then a server error
C11_Witness ==
  /\ ex.phase = "done"
  /\ ex.statuses = <<429, 500>>
  /\ ex.total = 2
  /\ ex.tasks = "empty"

\* C12 (as claimed; the code does otherwise): the Extraction Client sends the
\* request again after a 5xx response, as long as its retries are not used up.
C12_ExtractionRetriesServerError ==
  (ex.statuses # <<>> /\ Last(ex.statuses) >= 500 /\ Len(ex.statuses) <= 2) =>
    /\ ex.outcome = "pending"
    /\ ex.requests = Len(ex.statuses) + 1

\* C12 (amended): a 5xx response is retried by the Sync Client only: callOpenAI
\* throws at the first 5xx, whatever the attempt, and sends nothing more, while
\* callNotion, for the same response at the same attempt, retries after
\* attempt * 2 s when the attempt is the first or the second.
C12_OnlySyncRetriesServerError ==
  (ex.statuses # <<>> /\ Last(ex.statuses) >= 500) =>
    /\ ex.phase = "done"
    /\ ex.outcome = "threw"
    /\ ex.requests = Len(ex.statuses)
    /\ ex.total = ex.answered
    /\ ex.attempt <= 2 =>
         callNotion(Last(ex.statuses), ex.attempt)
           = [do |-> "retry", delayMs |-> ex.attempt * 2000]
    /\ ex.attempt > 2 => callNotion(Last(ex.statuses), ex.attempt).do = "throw"

\* the first response is a server error and the extraction is over
C12_Witness ==
  /\ ex.phase = "done"
  /\ ex.statuses = <<500>>
  /\ ex.attempt = 1
  /\ ex.total = 1

\* C13: content that does not parse, in reply to the prompt of extractTasks, is
\* followed by one callOpenAI with the strict prompt and the first 1000
\* characters of the chunk; what that call returns is parsed and its tasks are
\* returned, and when it does not parse or the call throws extractTasks returns
\* no task; no second corrective call is made.
C13_OneCorrectiveRetry ==
  /\ Len(ex.contents) <= 2
  /\ ex.phase = "first" =>
        ex.contents = <<>> /\ ex.request = [prompt |-> "extract", chars |-> ex.chunk.len]
  /\ ex.phase = "corrective" =>
        /\ ex.contents = <<"garbage">>
        /\ ex.request.prompt = "strict"
        /\ ex.request.chars <= ExcerptChars
        /\ ex.request.chars <= ex.chunk.len
        /\ ex.request.chars \in {ExcerptChars, ex.chunk.len}
  /\ ex.contents = <<"garbage">> =>
        \/ ex.phase = "corrective"
        \/ ex.phase = "done" /\ ex.outcome = "threw" /\ ex.request.prompt = "strict"
  /\ (ex.phase = "done" /\ ex.outcome = "returned") =>
        /\ ex.contents \in { <<"json">>, <<"garbage", "json">>, <<"garbage", "garbage">> }
        /\ ex.tasks = (IF Last(ex.contents) = "json" THEN "parsed" ELSE "empty")
        /\ ex.resultChunk = ex.chunk
  /\ (ex.phase = "done" /\ ex.outcome = "threw") =>
        ex.tasks = "empty" /\ ex.resultChunk = ex.chunk

\* the reply to the strict prompt, sent with a truncated chunk, does not parse
\* either
C13_Witness ==
  /\ ex.phase = "done"
  /\ ex.contents = <<"garbage", "garbage">>
  /\ ex.chunk.len > ExcerptChars
  /\ ex.request = [prompt |-> "strict", chars |-> ExcerptChars]
  /\ ex.tasks = "empty"

----------------------------------------------------------------------------
(* SpecLoop: the loops of TaskExtractor.extractTasksFromChunks and of
   NotionClient.syncTasks, for a list of n elements and a maxConcurrency *)

LoopMaxLen == 2          \* the list has at most that many elements

\* The values of the argument maxConcurrency (3 when it is not given)
Concurrencies == 0 .. MaxConcurrency

IdleCall == [phase |-> "idle", attempt |-> 0, requests |-> 0]

\* loopI is the i of the loop; cl.calls[k] is the extractTasks or createTask of
\* the k-th element: the callOpenAI or callNotion under way, its attempt, and
\* the requests sent for the element so far
InitLoop ==
  /\ Parked
  /\ state = DefaultState
  /\ \E op \in {"extractTasksFromChunks", "syncTasks"}, n \in 0 .. LoopMaxLen,
        maxConcurrency \in Concurrencies :
       cl = [op |-> op, n |-> n, maxConcurrency |-> maxConcurrency,
             phase |-> "loop", calls |-> [k \in 1 .. n |-> IdleCall],
             nResults |-> 0]
  /\ up = IdleUp
  /\ ex = IdleEx

\* chunks.slice(i, i + maxConcurrency), as positions 1 .. n
LoopBatchOf(i, n, maxConcurrency) ==
  { k \in 1 .. n : i < k /\ k <= i + maxConcurrency }

\* "for (let i = 0; i < chunks.length; ...)": the test, and the map of the batch
\* that sends the first request of each of its elements; or the return
LoopTurn ==
  /\ cl.phase = "loop"
  /\ IF loopI < cl.n
     THEN cl' = [cl EXCEPT
                   !.phase = "await",
                   !.calls = [k \in 1 .. cl.n |->
                                IF k \in LoopBatchOf(loopI, cl.n, cl.maxConcurrency)
                                THEN [phase |-> IF cl.op = "syncTasks" THEN "query"
                                                ELSE "first",
                                      attempt |-> 1, requests |-> 1]
                                ELSE @[k]]]
     ELSE cl' = [cl EXCEPT !.phase = "returned"]
  /\ UNCHANGED <<worldVars, runVars, up, ex>>

\* a request of extractTasks for element k is answered (or fetch rejects)
LoopExtractReply(k, reply) ==
  /\ cl.op = "extractTasksFromChunks"
  /\ cl.phase = "await"
  /\ k \in DOMAIN cl.calls
  /\ cl.calls[k].phase \in {"first", "corrective"}
  /\ LET c == cl.calls[k]
         r == callOpenAI(reply, c.attempt)
     IN  cl' = [cl EXCEPT !.calls[k] =
                  IF r.do = "retry"
                  THEN [c EXCEPT !.attempt = @ + 1, !.requests = @ + 1]
                  ELSE IF r.do = "throw"
                  THEN [c EXCEPT !.phase = "done"]
                  ELSE IF parseJsonResponse(reply.body, c.phase) = "corrective"
                  THEN [c EXCEPT !.phase = "corrective", !.attempt = 1,
                                 !.requests = @ + 1]
                  ELSE [c EXCEPT !.phase = "done"]]
  /\ UNCHANGED <<worldVars, runVars, up, ex>>

\* a request of createTask for element k is answered (or fetch rejects); the
\* query finds a page (exists) or not
LoopSyncReply(k, reply, exists) ==
  /\ cl.op = "syncTasks"
  /\ cl.phase = "await"
  /\ k \in DOMAIN cl.calls
  /\ cl.calls[k].phase \in {"query", "create"}
  /\ LET c == cl.calls[k]
         r == callNotion(reply.status, c.attempt)
     IN  cl' = [cl EXCEPT !.calls[k] =
                  IF r.do = "retry"
                  THEN [c EXCEPT !.attempt = @ + 1, !.requests = @ + 1]
                  ELSE IF c.phase = "query" /\ ~(r.do = "return" /\ exists)
                  THEN [c EXCEPT !.phase = "create", !.attempt = 1,
                                 !.requests = @ + 1]
                  ELSE [c EXCEPT !.phase = "done"]]
  /\ UNCHANGED <<worldVars, runVars, up, ex>>

\* Promise.all(batchPromises) resolves and the results are pushed; the pause
\* follows when i + maxConcurrency < length, and "i += maxConcurrency" if not
LoopBatchDone ==
  /\ cl.phase = "await"
  /\ \A k \in LoopBatchOf(loopI, cl.n, cl.maxConcurrency) : cl.calls[k].phase = "done"
  /\ LET nResults == cl.nResults
                       + Cardinality(LoopBatchOf(loopI, cl.n, cl.maxConcurrency))
     IN  IF loopI + cl.maxConcurrency < cl.n
         THEN /\ cl' = [cl EXCEPT !.phase = "pause", !.nResults = nResults]
              /\ loopI' = loopI
         ELSE /\ cl' = [cl EXCEPT !.phase = "loop", !.nResults = nResults]
              /\ loopI' = loopI + cl.maxConcurrency
  /\ UNCHANGED <<worldVars, pc, fileContents, chunks, results, allTasks,
                 syncResults, trace, up, ex>>

\* the timer of the pause fires; "i += maxConcurrency"
LoopPauseOver ==
  /\ cl.phase = "pause"
  /\ cl' = [cl EXCEPT !.phase = "loop"]
  /\ loopI' = loopI + cl.maxConcurrency
  /\ UNCHANGED <<worldVars, pc, fileContents, chunks, results, allTasks,
                 syncResults, trace, up, ex>>

NextLoop ==
  \/ LoopTurn
  \/ \E k \in 1 .. LoopMaxLen, reply \in Replies : LoopExtractReply(k, reply)
  \/ \E k \in 1 .. LoopMaxLen, reply \in UpReplies, exists \in BOOLEAN :
       LoopSyncReply(k, reply, exists)
  \/ LoopBatchDone
  \/ LoopPauseOver

SpecLoop == InitLoop /\ [][NextLoop]_vars

\* Every request is answered (or fails), every timer fires, and the code that it
\* resumes runs
SpecLoopFair == SpecLoop /\ WF_vars(NextLoop)

\* C40 (as claimed; the code does otherwise): whatever the list and the value
\* of maxConcurrency, once every request has been answered
\* extractTasksFromChunks and syncTasks return.
C40_BatchLoopsTerminate == <>(cl.phase = "returned")

====
